---- MODULE Spec2Model ----
(***************************************************************************)
(* Model of the speech-synthesis orchestrator of tts_service.py:           *)
(* generate_voice (the locked synchronous entry point),                    *)
(* generate_voice_async (validation, cache check, provider chain) and      *)
(* _edge_tts_with_smart_retry (the primary provider's retry loop).         *)
(*                                                                         *)
(* Strings are sequences of code points; the Python value None is the      *)
(* one-element sequence <<-1>>, which is no string.  File sizes are bytes, *)
(* backoff delays are tenths of a second.                                  *)
(***************************************************************************)
EXTENDS Integers, Sequences, FiniteSets, TLC

\* ------------------------------------------------------------------ bounds

\* Number of generate_voice calls started in one behaviour.
MaxCalls == 2

\* Largest max_attempts given to _edge_tts_with_smart_retry when it is
\* exercised on its own (RetrySpec).
MaxAttemptsBound == 7

\* ------------------------------------------------------- program constants

MAX_TEXT_LENGTH == 1000
MIN_TEXT_LENGTH == 1
\* "file_size > 1000": the trivial-audio-file floor
MIN_AUDIO_BYTES == 1000
\* max_attempts=3 in generate_voice_async's call of the retry loop
EDGE_MAX_ATTEMPTS == 3
\* min(2 ** attempt, 32)
BACKOFF_CAP_SECONDS == 32

\* ------------------------------------------------------------------ strings

NoneValue == <<-1>>

\* A truthy value that is no str and has no len() (an int such as 5)
NonStrValue == <<-2>>

\* A truthy value that is no str and has a len() (a list such as [1],
\* bytes such as b'a')
NonStrSized == <<-3>>

\* isinstance(x, str)
IsStr(x) == x \notin {NoneValue, NonStrValue, NonStrSized}

\* len(x) does not raise TypeError
HasLen(x) == x # NonStrValue

\* Fault variant of Falsy: "text is None" written for "not text"
Falsy_NoneOnly(x) == x = NoneValue

\* Python truthiness of a str-or-None value: "not text"
Falsy(x) == x = NoneValue \/ x = <<>>

\* str.isspace() of one character
IsSpace(c) ==
    \/ c \in 9..13
    \/ c \in 28..32
    \/ c \in {133, 160, 5760, 8232, 8233, 8239, 8287, 12288}
    \/ c \in 8192..8202

RECURSIVE LStrip(_)
LStrip(s) ==
    IF s = <<>> THEN <<>>
    ELSE IF IsSpace(Head(s)) THEN LStrip(Tail(s)) ELSE s

RECURSIVE RStrip(_)
RStrip(s) ==
    IF s = <<>> THEN <<>>
    ELSE IF IsSpace(s[Len(s)]) THEN RStrip(SubSeq(s, 1, Len(s) - 1)) ELSE s

\* str.strip()
Strip(s) == RStrip(LStrip(s))

\* The simple lower-case mappings of the non-ASCII code points, from the
\* Unicode 14.0 character database of the interpreter, as runs
\* <<first, last, step, delta>>: every step-th code point from first to last
\* lowers to itself plus delta.  U+0130 and U+03A3 are handled apart.
LowerRuns ==
    <<<<192, 214, 1, 32>>, <<216, 222, 1, 32>>, <<256, 302, 2, 1>>,
      <<306, 310, 2, 1>>, <<313, 327, 2, 1>>, <<330, 374, 2, 1>>,
      <<376, 376, 1, -121>>, <<377, 381, 2, 1>>, <<385, 385, 1, 210>>,
      <<386, 388, 2, 1>>, <<390, 390, 1, 206>>, <<391, 391, 1, 1>>,
      <<393, 394, 1, 205>>, <<395, 395, 1, 1>>, <<398, 398, 1, 79>>,
      <<399, 399, 1, 202>>, <<400, 400, 1, 203>>, <<401, 401, 1, 1>>,
      <<403, 403, 1, 205>>, <<404, 404, 1, 207>>, <<406, 406, 1, 211>>,
      <<407, 407, 1, 209>>, <<408, 408, 1, 1>>, <<412, 412, 1, 211>>,
      <<413, 413, 1, 213>>, <<415, 415, 1, 214>>, <<416, 420, 2, 1>>,
      <<422, 422, 1, 218>>, <<423, 423, 1, 1>>, <<425, 425, 1, 218>>,
      <<428, 428, 1, 1>>, <<430, 430, 1, 218>>, <<431, 431, 1, 1>>,
      <<433, 434, 1, 217>>, <<435, 437, 2, 1>>, <<439, 439, 1, 219>>,
      <<440, 440, 1, 1>>, <<444, 444, 1, 1>>, <<452, 452, 1, 2>>,
      <<453, 453, 1, 1>>, <<455, 455, 1, 2>>, <<456, 456, 1, 1>>,
      <<458, 458, 1, 2>>, <<459, 475, 2, 1>>, <<478, 494, 2, 1>>,
      <<497, 497, 1, 2>>, <<498, 500, 2, 1>>, <<502, 502, 1, -97>>,
      <<503, 503, 1, -56>>, <<504, 542, 2, 1>>, <<544, 544, 1, -130>>,
      <<546, 562, 2, 1>>, <<570, 570, 1, 10795>>, <<571, 571, 1, 1>>,
      <<573, 573, 1, -163>>, <<574, 574, 1, 10792>>, <<577, 577, 1, 1>>,
      <<579, 579, 1, -195>>, <<580, 580, 1, 69>>, <<581, 581, 1, 71>>,
      <<582, 590, 2, 1>>, <<880, 882, 2, 1>>, <<886, 886, 1, 1>>,
      <<895, 895, 1, 116>>, <<902, 902, 1, 38>>, <<904, 906, 1, 37>>,
      <<908, 908, 1, 64>>, <<910, 911, 1, 63>>, <<913, 929, 1, 32>>,
      <<932, 939, 1, 32>>, <<975, 975, 1, 8>>, <<984, 1006, 2, 1>>,
      <<1012, 1012, 1, -60>>, <<1015, 1015, 1, 1>>, <<1017, 1017, 1, -7>>,
      <<1018, 1018, 1, 1>>, <<1021, 1023, 1, -130>>, <<1024, 1039, 1, 80>>,
      <<1040, 1071, 1, 32>>, <<1120, 1152, 2, 1>>, <<1162, 1214, 2, 1>>,
      <<1216, 1216, 1, 15>>, <<1217, 1229, 2, 1>>, <<1232, 1326, 2, 1>>,
      <<1329, 1366, 1, 48>>, <<4256, 4293, 1, 7264>>, <<4295, 4295, 1, 7264>>,
      <<4301, 4301, 1, 7264>>, <<5024, 5103, 1, 38864>>, <<5104, 5109, 1, 8>>,
      <<7312, 7354, 1, -3008>>, <<7357, 7359, 1, -3008>>, <<7680, 7828, 2, 1>>,
      <<7838, 7838, 1, -7615>>, <<7840, 7934, 2, 1>>, <<7944, 7951, 1, -8>>,
      <<7960, 7965, 1, -8>>, <<7976, 7983, 1, -8>>, <<7992, 7999, 1, -8>>,
      <<8008, 8013, 1, -8>>, <<8025, 8031, 2, -8>>, <<8040, 8047, 1, -8>>,
      <<8072, 8079, 1, -8>>, <<8088, 8095, 1, -8>>, <<8104, 8111, 1, -8>>,
      <<8120, 8121, 1, -8>>, <<8122, 8123, 1, -74>>, <<8124, 8124, 1, -9>>,
      <<8136, 8139, 1, -86>>, <<8140, 8140, 1, -9>>, <<8152, 8153, 1, -8>>,
      <<8154, 8155, 1, -100>>, <<8168, 8169, 1, -8>>, <<8170, 8171, 1, -112>>,
      <<8172, 8172, 1, -7>>, <<8184, 8185, 1, -128>>, <<8186, 8187, 1, -126>>,
      <<8188, 8188, 1, -9>>, <<8486, 8486, 1, -7517>>,
      <<8490, 8490, 1, -8383>>, <<8491, 8491, 1, -8262>>,
      <<8498, 8498, 1, 28>>, <<8544, 8559, 1, 16>>, <<8579, 8579, 1, 1>>,
      <<9398, 9423, 1, 26>>, <<11264, 11311, 1, 48>>, <<11360, 11360, 1, 1>>,
      <<11362, 11362, 1, -10743>>, <<11363, 11363, 1, -3814>>,
      <<11364, 11364, 1, -10727>>, <<11367, 11371, 2, 1>>,
      <<11373, 11373, 1, -10780>>, <<11374, 11374, 1, -10749>>,
      <<11375, 11375, 1, -10783>>, <<11376, 11376, 1, -10782>>,
      <<11378, 11378, 1, 1>>, <<11381, 11381, 1, 1>>,
      <<11390, 11391, 1, -10815>>, <<11392, 11490, 2, 1>>,
      <<11499, 11501, 2, 1>>, <<11506, 11506, 1, 1>>, <<42560, 42604, 2, 1>>,
      <<42624, 42650, 2, 1>>, <<42786, 42798, 2, 1>>, <<42802, 42862, 2, 1>>,
      <<42873, 42875, 2, 1>>, <<42877, 42877, 1, -35332>>,
      <<42878, 42886, 2, 1>>, <<42891, 42891, 1, 1>>,
      <<42893, 42893, 1, -42280>>, <<42896, 42898, 2, 1>>,
      <<42902, 42920, 2, 1>>, <<42922, 42922, 1, -42308>>,
      <<42923, 42923, 1, -42319>>, <<42924, 42924, 1, -42315>>,
      <<42925, 42925, 1, -42305>>, <<42926, 42926, 1, -42308>>,
      <<42928, 42928, 1, -42258>>, <<42929, 42929, 1, -42282>>,
      <<42930, 42930, 1, -42261>>, <<42931, 42931, 1, 928>>,
      <<42932, 42946, 2, 1>>, <<42948, 42948, 1, -48>>,
      <<42949, 42949, 1, -42307>>, <<42950, 42950, 1, -35384>>,
      <<42951, 42953, 2, 1>>, <<42960, 42960, 1, 1>>, <<42966, 42968, 2, 1>>,
      <<42997, 42997, 1, 1>>, <<65313, 65338, 1, 32>>, <<66560, 66599, 1, 40>>,
      <<66736, 66771, 1, 40>>, <<66928, 66938, 1, 39>>,
      <<66940, 66954, 1, 39>>, <<66956, 66962, 1, 39>>,
      <<66964, 66965, 1, 39>>, <<68736, 68786, 1, 64>>,
      <<71840, 71871, 1, 32>>, <<93760, 93791, 1, 32>>,
      <<125184, 125217, 1, 34>>>>

\* The code points that are cased and not case-ignorable, as runs
\* <<first, last>>
CasedRuns ==
    <<<<65, 90>>, <<97, 122>>, <<170, 170>>, <<181, 181>>, <<186, 186>>,
      <<192, 214>>, <<216, 246>>, <<248, 442>>, <<444, 447>>, <<452, 659>>,
      <<661, 687>>, <<880, 883>>, <<886, 887>>, <<891, 893>>, <<895, 895>>,
      <<902, 902>>, <<904, 906>>, <<908, 908>>, <<910, 929>>, <<931, 1013>>,
      <<1015, 1153>>, <<1162, 1327>>, <<1329, 1366>>, <<1376, 1416>>,
      <<4256, 4293>>, <<4295, 4295>>, <<4301, 4301>>, <<4304, 4346>>,
      <<4349, 4351>>, <<5024, 5109>>, <<5112, 5117>>, <<7296, 7304>>,
      <<7312, 7354>>, <<7357, 7359>>, <<7424, 7467>>, <<7531, 7543>>,
      <<7545, 7578>>, <<7680, 7957>>, <<7960, 7965>>, <<7968, 8005>>,
      <<8008, 8013>>, <<8016, 8023>>, <<8025, 8025>>, <<8027, 8027>>,
      <<8029, 8029>>, <<8031, 8061>>, <<8064, 8116>>, <<8118, 8124>>,
      <<8126, 8126>>, <<8130, 8132>>, <<8134, 8140>>, <<8144, 8147>>,
      <<8150, 8155>>, <<8160, 8172>>, <<8178, 8180>>, <<8182, 8188>>,
      <<8450, 8450>>, <<8455, 8455>>, <<8458, 8467>>, <<8469, 8469>>,
      <<8473, 8477>>, <<8484, 8484>>, <<8486, 8486>>, <<8488, 8488>>,
      <<8490, 8493>>, <<8495, 8500>>, <<8505, 8505>>, <<8508, 8511>>,
      <<8517, 8521>>, <<8526, 8526>>, <<8544, 8575>>, <<8579, 8580>>,
      <<9398, 9449>>, <<11264, 11387>>, <<11390, 11492>>, <<11499, 11502>>,
      <<11506, 11507>>, <<11520, 11557>>, <<11559, 11559>>, <<11565, 11565>>,
      <<42560, 42605>>, <<42624, 42651>>, <<42786, 42863>>, <<42865, 42887>>,
      <<42891, 42894>>, <<42896, 42954>>, <<42960, 42961>>, <<42963, 42963>>,
      <<42965, 42969>>, <<42997, 42998>>, <<43002, 43002>>, <<43824, 43866>>,
      <<43872, 43880>>, <<43888, 43967>>, <<64256, 64262>>, <<64275, 64279>>,
      <<65313, 65338>>, <<65345, 65370>>, <<66560, 66639>>, <<66736, 66771>>,
      <<66776, 66811>>, <<66928, 66938>>, <<66940, 66954>>, <<66956, 66962>>,
      <<66964, 66965>>, <<66967, 66977>>, <<66979, 66993>>, <<66995, 67001>>,
      <<67003, 67004>>, <<68736, 68786>>, <<68800, 68850>>, <<71840, 71903>>,
      <<93760, 93823>>, <<119808, 119892>>, <<119894, 119964>>,
      <<119966, 119967>>, <<119970, 119970>>, <<119973, 119974>>,
      <<119977, 119980>>, <<119982, 119993>>, <<119995, 119995>>,
      <<119997, 120003>>, <<120005, 120069>>, <<120071, 120074>>,
      <<120077, 120084>>, <<120086, 120092>>, <<120094, 120121>>,
      <<120123, 120126>>, <<120128, 120132>>, <<120134, 120134>>,
      <<120138, 120144>>, <<120146, 120485>>, <<120488, 120512>>,
      <<120514, 120538>>, <<120540, 120570>>, <<120572, 120596>>,
      <<120598, 120628>>, <<120630, 120654>>, <<120656, 120686>>,
      <<120688, 120712>>, <<120714, 120744>>, <<120746, 120770>>,
      <<120772, 120779>>, <<122624, 122633>>, <<122635, 122654>>,
      <<125184, 125251>>, <<127280, 127305>>, <<127312, 127337>>,
      <<127344, 127369>>>>

\* The case-ignorable code points, as runs <<first, last>>
CaseIgnorableRuns ==
    <<<<39, 39>>, <<46, 46>>, <<58, 58>>, <<94, 94>>, <<96, 96>>, <<168, 168>>,
      <<173, 173>>, <<175, 175>>, <<180, 180>>, <<183, 184>>, <<688, 879>>,
      <<884, 885>>, <<890, 890>>, <<900, 901>>, <<903, 903>>, <<1155, 1161>>,
      <<1369, 1369>>, <<1375, 1375>>, <<1425, 1469>>, <<1471, 1471>>,
      <<1473, 1474>>, <<1476, 1477>>, <<1479, 1479>>, <<1524, 1524>>,
      <<1536, 1541>>, <<1552, 1562>>, <<1564, 1564>>, <<1600, 1600>>,
      <<1611, 1631>>, <<1648, 1648>>, <<1750, 1757>>, <<1759, 1768>>,
      <<1770, 1773>>, <<1807, 1807>>, <<1809, 1809>>, <<1840, 1866>>,
      <<1958, 1968>>, <<2027, 2037>>, <<2042, 2042>>, <<2045, 2045>>,
      <<2070, 2093>>, <<2137, 2139>>, <<2184, 2184>>, <<2192, 2193>>,
      <<2200, 2207>>, <<2249, 2306>>, <<2362, 2362>>, <<2364, 2364>>,
      <<2369, 2376>>, <<2381, 2381>>, <<2385, 2391>>, <<2402, 2403>>,
      <<2417, 2417>>, <<2433, 2433>>, <<2492, 2492>>, <<2497, 2500>>,
      <<2509, 2509>>, <<2530, 2531>>, <<2558, 2558>>, <<2561, 2562>>,
      <<2620, 2620>>, <<2625, 2626>>, <<2631, 2632>>, <<2635, 2637>>,
      <<2641, 2641>>, <<2672, 2673>>, <<2677, 2677>>, <<2689, 2690>>,
      <<2748, 2748>>, <<2753, 2757>>, <<2759, 2760>>, <<2765, 2765>>,
      <<2786, 2787>>, <<2810, 2815>>, <<2817, 2817>>, <<2876, 2876>>,
      <<2879, 2879>>, <<2881, 2884>>, <<2893, 2893>>, <<2901, 2902>>,
      <<2914, 2915>>, <<2946, 2946>>, <<3008, 3008>>, <<3021, 3021>>,
      <<3072, 3072>>, <<3076, 3076>>, <<3132, 3132>>, <<3134, 3136>>,
      <<3142, 3144>>, <<3146, 3149>>, <<3157, 3158>>, <<3170, 3171>>,
      <<3201, 3201>>, <<3260, 3260>>, <<3263, 3263>>, <<3270, 3270>>,
      <<3276, 3277>>, <<3298, 3299>>, <<3328, 3329>>, <<3387, 3388>>,
      <<3393, 3396>>, <<3405, 3405>>, <<3426, 3427>>, <<3457, 3457>>,
      <<3530, 3530>>, <<3538, 3540>>, <<3542, 3542>>, <<3633, 3633>>,
      <<3636, 3642>>, <<3654, 3662>>, <<3761, 3761>>, <<3764, 3772>>,
      <<3782, 3782>>, <<3784, 3789>>, <<3864, 3865>>, <<3893, 3893>>,
      <<3895, 3895>>, <<3897, 3897>>, <<3953, 3966>>, <<3968, 3972>>,
      <<3974, 3975>>, <<3981, 3991>>, <<3993, 4028>>, <<4038, 4038>>,
      <<4141, 4144>>, <<4146, 4151>>, <<4153, 4154>>, <<4157, 4158>>,
      <<4184, 4185>>, <<4190, 4192>>, <<4209, 4212>>, <<4226, 4226>>,
      <<4229, 4230>>, <<4237, 4237>>, <<4253, 4253>>, <<4348, 4348>>,
      <<4957, 4959>>, <<5906, 5908>>, <<5938, 5939>>, <<5970, 5971>>,
      <<6002, 6003>>, <<6068, 6069>>, <<6071, 6077>>, <<6086, 6086>>,
      <<6089, 6099>>, <<6103, 6103>>, <<6109, 6109>>, <<6155, 6159>>,
      <<6211, 6211>>, <<6277, 6278>>, <<6313, 6313>>, <<6432, 6434>>,
      <<6439, 6440>>, <<6450, 6450>>, <<6457, 6459>>, <<6679, 6680>>,
      <<6683, 6683>>, <<6742, 6742>>, <<6744, 6750>>, <<6752, 6752>>,
      <<6754, 6754>>, <<6757, 6764>>, <<6771, 6780>>, <<6783, 6783>>,
      <<6823, 6823>>, <<6832, 6862>>, <<6912, 6915>>, <<6964, 6964>>,
      <<6966, 6970>>, <<6972, 6972>>, <<6978, 6978>>, <<7019, 7027>>,
      <<7040, 7041>>, <<7074, 7077>>, <<7080, 7081>>, <<7083, 7085>>,
      <<7142, 7142>>, <<7144, 7145>>, <<7149, 7149>>, <<7151, 7153>>,
      <<7212, 7219>>, <<7222, 7223>>, <<7288, 7293>>, <<7376, 7378>>,
      <<7380, 7392>>, <<7394, 7400>>, <<7405, 7405>>, <<7412, 7412>>,
      <<7416, 7417>>, <<7468, 7530>>, <<7544, 7544>>, <<7579, 7679>>,
      <<8125, 8125>>, <<8127, 8129>>, <<8141, 8143>>, <<8157, 8159>>,
      <<8173, 8175>>, <<8189, 8190>>, <<8203, 8207>>, <<8216, 8217>>,
      <<8228, 8228>>, <<8231, 8231>>, <<8234, 8238>>, <<8288, 8292>>,
      <<8294, 8303>>, <<8305, 8305>>, <<8319, 8319>>, <<8336, 8348>>,
      <<8400, 8432>>, <<11388, 11389>>, <<11503, 11505>>, <<11631, 11631>>,
      <<11647, 11647>>, <<11744, 11775>>, <<11823, 11823>>, <<12293, 12293>>,
      <<12330, 12333>>, <<12337, 12341>>, <<12347, 12347>>, <<12441, 12446>>,
      <<12540, 12542>>, <<40981, 40981>>, <<42232, 42237>>, <<42508, 42508>>,
      <<42607, 42610>>, <<42612, 42621>>, <<42623, 42623>>, <<42652, 42655>>,
      <<42736, 42737>>, <<42752, 42785>>, <<42864, 42864>>, <<42888, 42890>>,
      <<42994, 42996>>, <<43000, 43001>>, <<43010, 43010>>, <<43014, 43014>>,
      <<43019, 43019>>, <<43045, 43046>>, <<43052, 43052>>, <<43204, 43205>>,
      <<43232, 43249>>, <<43263, 43263>>, <<43302, 43309>>, <<43335, 43345>>,
      <<43392, 43394>>, <<43443, 43443>>, <<43446, 43449>>, <<43452, 43453>>,
      <<43471, 43471>>, <<43493, 43494>>, <<43561, 43566>>, <<43569, 43570>>,
      <<43573, 43574>>, <<43587, 43587>>, <<43596, 43596>>, <<43632, 43632>>,
      <<43644, 43644>>, <<43696, 43696>>, <<43698, 43700>>, <<43703, 43704>>,
      <<43710, 43711>>, <<43713, 43713>>, <<43741, 43741>>, <<43756, 43757>>,
      <<43763, 43764>>, <<43766, 43766>>, <<43867, 43871>>, <<43881, 43883>>,
      <<44005, 44005>>, <<44008, 44008>>, <<44013, 44013>>, <<64286, 64286>>,
      <<64434, 64450>>, <<65024, 65039>>, <<65043, 65043>>, <<65056, 65071>>,
      <<65106, 65106>>, <<65109, 65109>>, <<65279, 65279>>, <<65287, 65287>>,
      <<65294, 65294>>, <<65306, 65306>>, <<65342, 65342>>, <<65344, 65344>>,
      <<65392, 65392>>, <<65438, 65439>>, <<65507, 65507>>, <<65529, 65531>>,
      <<66045, 66045>>, <<66272, 66272>>, <<66422, 66426>>, <<67456, 67461>>,
      <<67463, 67504>>, <<67506, 67514>>, <<68097, 68099>>, <<68101, 68102>>,
      <<68108, 68111>>, <<68152, 68154>>, <<68159, 68159>>, <<68325, 68326>>,
      <<68900, 68903>>, <<69291, 69292>>, <<69446, 69456>>, <<69506, 69509>>,
      <<69633, 69633>>, <<69688, 69702>>, <<69744, 69744>>, <<69747, 69748>>,
      <<69759, 69761>>, <<69811, 69814>>, <<69817, 69818>>, <<69821, 69821>>,
      <<69826, 69826>>, <<69837, 69837>>, <<69888, 69890>>, <<69927, 69931>>,
      <<69933, 69940>>, <<70003, 70003>>, <<70016, 70017>>, <<70070, 70078>>,
      <<70089, 70092>>, <<70095, 70095>>, <<70191, 70193>>, <<70196, 70196>>,
      <<70198, 70199>>, <<70206, 70206>>, <<70367, 70367>>, <<70371, 70378>>,
      <<70400, 70401>>, <<70459, 70460>>, <<70464, 70464>>, <<70502, 70508>>,
      <<70512, 70516>>, <<70712, 70719>>, <<70722, 70724>>, <<70726, 70726>>,
      <<70750, 70750>>, <<70835, 70840>>, <<70842, 70842>>, <<70847, 70848>>,
      <<70850, 70851>>, <<71090, 71093>>, <<71100, 71101>>, <<71103, 71104>>,
      <<71132, 71133>>, <<71219, 71226>>, <<71229, 71229>>, <<71231, 71232>>,
      <<71339, 71339>>, <<71341, 71341>>, <<71344, 71349>>, <<71351, 71351>>,
      <<71453, 71455>>, <<71458, 71461>>, <<71463, 71467>>, <<71727, 71735>>,
      <<71737, 71738>>, <<71995, 71996>>, <<71998, 71998>>, <<72003, 72003>>,
      <<72148, 72151>>, <<72154, 72155>>, <<72160, 72160>>, <<72193, 72202>>,
      <<72243, 72248>>, <<72251, 72254>>, <<72263, 72263>>, <<72273, 72278>>,
      <<72281, 72283>>, <<72330, 72342>>, <<72344, 72345>>, <<72752, 72758>>,
      <<72760, 72765>>, <<72767, 72767>>, <<72850, 72871>>, <<72874, 72880>>,
      <<72882, 72883>>, <<72885, 72886>>, <<73009, 73014>>, <<73018, 73018>>,
      <<73020, 73021>>, <<73023, 73029>>, <<73031, 73031>>, <<73104, 73105>>,
      <<73109, 73109>>, <<73111, 73111>>, <<73459, 73460>>, <<78896, 78904>>,
      <<92912, 92916>>, <<92976, 92982>>, <<92992, 92995>>, <<94031, 94031>>,
      <<94095, 94111>>, <<94176, 94177>>, <<94179, 94180>>, <<110576, 110579>>,
      <<110581, 110587>>, <<110589, 110590>>, <<113821, 113822>>,
      <<113824, 113827>>, <<118528, 118573>>, <<118576, 118598>>,
      <<119143, 119145>>, <<119155, 119170>>, <<119173, 119179>>,
      <<119210, 119213>>, <<119362, 119364>>, <<121344, 121398>>,
      <<121403, 121452>>, <<121461, 121461>>, <<121476, 121476>>,
      <<121499, 121503>>, <<121505, 121519>>, <<122880, 122886>>,
      <<122888, 122904>>, <<122907, 122913>>, <<122915, 122916>>,
      <<122918, 122922>>, <<123184, 123197>>, <<123566, 123566>>,
      <<123628, 123631>>, <<125136, 125142>>, <<125252, 125259>>,
      <<127995, 127999>>, <<917505, 917505>>, <<917536, 917631>>,
      <<917760, 917999>>>>

InRuns(c, runs) ==
    \E i \in 1..Len(runs) : runs[i][1] <= c /\ c <= runs[i][2]

\* str.lower() of one character other than U+03A3, as the code points of
\* its lower-case form; U+0130 lowers to two code points.
LowerChar(c) ==
    IF c < 128 THEN (IF c \in 65..90 THEN <<c + 32>> ELSE <<c>>)
    ELSE IF c = 304 THEN <<105, 775>>
    ELSE LET hits == {i \in 1..Len(LowerRuns) :
                         /\ LowerRuns[i][1] <= c /\ c <= LowerRuns[i][2]
                         /\ (c - LowerRuns[i][1]) % LowerRuns[i][3] = 0}
         IN  IF hits = {} THEN <<c>>
             ELSE <<c + LowerRuns[CHOOSE i \in hits : TRUE][4]>>

\* The capital sigma at position i of s is a final sigma: before it, past
\* any case-ignorable characters, stands a cased character, and after it,
\* past any case-ignorable characters, stands none.
FinalSigma(s, i) ==
    /\ \E j \in 1..(i - 1) :
         /\ InRuns(s[j], CasedRuns)
         /\ \A k \in (j + 1)..(i - 1) : InRuns(s[k], CaseIgnorableRuns)
    /\ ~\E j \in (i + 1)..Len(s) :
         /\ InRuns(s[j], CasedRuns)
         /\ \A k \in (i + 1)..(j - 1) : InRuns(s[k], CaseIgnorableRuns)

\* The characters of s from position i on, lowered
RECURSIVE LowerFrom(_, _)
LowerFrom(s, i) ==
    IF i > Len(s) THEN <<>>
    ELSE (IF s[i] = 931
          THEN (IF FinalSigma(s, i) THEN <<962>> ELSE <<963>>)
          ELSE LowerChar(s[i]))
         \o LowerFrom(s, i + 1)

\* str.lower()
Lower(s) == LowerFrom(s, 1)

\* "sub in s"
Contains(s, sub) ==
    \E i \in 0..(Len(s) - Len(sub)) : SubSeq(s, i + 1, i + Len(sub)) = sub

\* str(n) for n >= 0
RECURSIVE IntToStr(_)
IntToStr(n) ==
    IF n < 10 THEN <<48 + n>>
    ELSE IntToStr(n \div 10) \o <<48 + (n % 10)>>

\* s[:n]: the first n characters of s, or, for a negative n, all but the
\* last -n
SliceTo(s, n) ==
    IF n >= 0 THEN SubSeq(s, 1, IF n < Len(s) THEN n ELSE Len(s))
    ELSE IF Len(s) + n > 0 THEN SubSeq(s, 1, Len(s) + n)
    ELSE <<>>

\* s.rfind(' '): 0-based index of the last space, -1 when there is none
RFindSpace(s) ==
    IF \E i \in 1..Len(s) : s[i] = 32
    THEN (CHOOSE i \in 1..Len(s) : s[i] = 32 /\ \A j \in (i + 1)..Len(s) : s[j] # 32) - 1
    ELSE -1

\* --------------------------------------------------------- text preprocessing

_remove_emojis_and_non_ascii(text) ==
    SelectSeq(text, LAMBDA c : c < 128 \/ c = 32)

RECURSIVE DropWhileIn(_, _)
DropWhileIn(s, set) ==
    IF s = <<>> THEN <<>>
    ELSE IF Head(s) \in set THEN DropWhileIn(Tail(s), set) ELSE s

\* re.sub(r'[\n\r\t]+', ' ', text)
RECURSIVE SubNewlinesTabs(_)
SubNewlinesTabs(s) ==
    IF s = <<>> THEN <<>>
    ELSE IF Head(s) \in {10, 13, 9}
         THEN <<32>> \o SubNewlinesTabs(DropWhileIn(s, {10, 13, 9}))
         ELSE <<Head(s)>> \o SubNewlinesTabs(Tail(s))

\* re.sub(r' {2,}', ' ', text)
RECURSIVE SubSpaceRuns(_)
SubSpaceRuns(s) ==
    IF s = <<>> THEN <<>>
    ELSE IF Head(s) = 32
         THEN <<32>> \o SubSpaceRuns(DropWhileIn(s, {32}))
         ELSE <<Head(s)>> \o SubSpaceRuns(Tail(s))

\* Fault variant of _collapse_whitespace: the two substitutions in the
\* other order
_collapse_whitespace_Swapped(text) == Strip(SubNewlinesTabs(SubSpaceRuns(text)))

_collapse_whitespace(text) == Strip(SubSpaceRuns(SubNewlinesTabs(text)))

\* Fault variant of Truncate: step 5 left out
Truncate_NoCut(text, max_length) == text

\* Step 5 of preprocess_text: cut at max_length, then at the last space when
\* it lies beyond 80% of the window ("last_space > max_length * 0.8").
Truncate(text, max_length) ==
    IF Len(text) > max_length
    THEN LET cut == SliceTo(text, max_length)
             last_space == RFindSpace(cut)
         IN  IF 10 * last_space > 8 * max_length
             THEN SliceTo(cut, last_space)
             ELSE cut
    ELSE text

preprocess_text(text, max_length) ==
    IF Falsy(text) \/ ~IsStr(text) THEN <<>>
    ELSE LET t1 == Strip(text) IN
         IF t1 = <<>> THEN <<>>
         ELSE LET t3 == _collapse_whitespace(_remove_emojis_and_non_ascii(t1)) IN
              IF t3 = <<>> THEN <<>>
              ELSE IF Len(t3) < MIN_TEXT_LENGTH THEN <<>>
              ELSE Strip(Truncate(t3, max_length))

\* ------------------------------------------------------ error classification

\* The markers _is_retryable_error looks for in str(error).lower()
M_noaudioreceived == <<110, 111, 97, 117, 100, 105, 111, 114, 101, 99, 101, 105, 118, 101, 100>>
M_no_audio_received == <<110, 111, 32, 97, 117, 100, 105, 111, 32, 114, 101, 99, 101, 105, 118, 101, 100>>
M_400 == <<52, 48, 48>>
M_bad_request == <<98, 97, 100, 32, 114, 101, 113, 117, 101, 115, 116>>
M_404 == <<52, 48, 52>>
M_not_found == <<110, 111, 116, 32, 102, 111, 117, 110, 100>>
M_encode == <<101, 110, 99, 111, 100, 101>>
M_decode == <<100, 101, 99, 111, 100, 101>>
M_utf == <<117, 116, 102>>
M_403 == <<52, 48, 51>>
M_forbidden == <<102, 111, 114, 98, 105, 100, 100, 101, 110>>
M_503 == <<53, 48, 51>>
M_service_unavailable == <<115, 101, 114, 118, 105, 99, 101, 32, 117, 110, 97, 118, 97, 105, 108, 97, 98, 108, 101>>
M_temporarily_unavailable == <<116, 101, 109, 112, 111, 114, 97, 114, 105, 108, 121, 32, 117, 110, 97, 118, 97, 105, 108, 97, 98, 108, 101>>
M_timeout == <<116, 105, 109, 101, 111, 117, 116>>
M_connection == <<99, 111, 110, 110, 101, 99, 116, 105, 111, 110>>
M_refused == <<114, 101, 102, 117, 115, 101, 100>>
M_reset == <<114, 101, 115, 101, 116>>

\* _is_retryable_error(error), given str(error)
_is_retryable_error(error_msg) ==
    LET error_str == Lower(error_msg)
        has(m) == Contains(error_str, m)
    IN  IF has(M_noaudioreceived) \/ has(M_no_audio_received) THEN FALSE
        ELSE IF has(M_400) \/ has(M_bad_request) THEN FALSE
        ELSE IF has(M_404) \/ has(M_not_found) THEN FALSE
        ELSE IF has(M_encode) \/ has(M_decode) \/ has(M_utf) THEN FALSE
        ELSE IF has(M_403) \/ has(M_forbidden) THEN TRUE
        ELSE IF has(M_503) \/ has(M_service_unavailable)
                \/ has(M_temporarily_unavailable) THEN TRUE
        ELSE IF has(M_timeout) \/ has(M_connection) \/ has(M_refused)
                \/ has(M_reset) THEN TRUE
        ELSE TRUE

\* Messages of the exceptions the primary provider's call can end with.
\* "403 Forbidden"
Msg403 ==
    <<52, 48, 51, 32, 70, 111, 114, 98, 105, 100, 100, 101, 110>>
\* "NoAudioReceived"
MsgNoAudio ==
    <<78, 111, 65, 117, 100, 105, 111, 82, 101, 99, 101, 105, 118, 101, 100>>
\* "Edge TTS timeout - WebSocket may be stuck"
MsgTimeout ==
    <<69, 100, 103, 101, 32, 84, 84, 83, 32, 116, 105, 109, 101, 111, 117, 116, 32,
      45, 32, 87, 101, 98, 83, 111, 99, 107, 101, 116, 32, 109, 97, 121, 32, 98,
      101, 32, 115, 116, 117, 99, 107>>
\* "Output file was not created"
MsgNotCreated ==
    <<79, 117, 116, 112, 117, 116, 32, 102, 105, 108, 101, 32, 119, 97, 115, 32,
      110, 111, 116, 32, 99, 114, 101, 97, 116, 101, 100>>
\* f"Invalid output file size: {file_size} bytes"
MsgInvalidSize(file_size) ==
    <<73, 110, 118, 97, 108, 105, 100, 32, 111, 117, 116, 112, 117, 116, 32, 102,
      105, 108, 101, 32, 115, 105, 122, 101, 58, 32>>
    \o IntToStr(file_size) \o <<32, 98, 121, 116, 101, 115>>

\* ------------------------------------------------------------------ backoff

RECURSIVE Pow2(_)
Pow2(n) == IF n = 0 THEN 1 ELSE 2 * Pow2(n - 1)

Min(a, b) == IF a < b THEN a ELSE b

\* backoff_with_jitter of the retry loop after a failed attempt, in tenths of
\* a second: min(2 ** attempt, 32) + 0.1 * (attempt % 2)
BackoffTenths(attempt) ==
    10 * Min(Pow2(attempt), BACKOFF_CAP_SECONDS) + (attempt % 2)

\* --------------------------------------------------------------- file system

\* A file is its size and whose narration it holds; NoFile is an absent path.
NoFile == [size |-> -1, text |-> <<>>]

Exists(f, p) == f[p].size >= 0

\* output/voice.mp3
DEFAULT_OUTPUT_PATH == [dir |-> "output", name |-> <<>>]

\* A caller-chosen output path on another filesystem than the cache directory
TmpPath == [dir |-> "tmp", name |-> <<>>]

\* output_path=None
NonePath == [dir |-> "None", name |-> <<>>]

\* os.path.join(CACHE_DIR, md5(text) + ".mp3"): one path per distinct text
get_cache_path(text) == [dir |-> "output/cache", name |-> text]

Device(p) == IF p.dir = "tmp" THEN "tmpfs" ELSE "disk"

\* os.replace(src, dst) raises when src is missing or on another filesystem
ReplaceRaises(f, src, dst) == ~Exists(f, src) \/ Device(src) # Device(dst)

\* os.replace(src, dst) when it does not raise: a rename
os_replace(f, src, dst) ==
    IF src = dst THEN f
    ELSE [f EXCEPT ![dst] = f[src], ![src] = NoFile]

\* Fault variant of RemoveIfExists: the file is left where it is
RemoveIfExists_Keep(f, p) == f

\* "if os.path.exists(p): os.remove(p)"
RemoveIfExists(f, p) == [f EXCEPT ![p] = NoFile]

WriteFile(f, p, size, text) == [f EXCEPT ![p] = [size |-> size, text |-> text]]

\* ------------------------------------------------------------------- inputs

Threads == {1, 2}

\* Sizes a provider may write: the floor itself and the first valid size;
\* for the primary provider also an invalid size whose decimal form is an
\* HTTP status code.
Sizes == {MIN_AUDIO_BYTES, MIN_AUDIO_BYTES + 1}

EdgeSizes == Sizes \cup {400}

\* None, 5, [1], "", " ", "é", "a", "b"
Texts == {NoneValue, NonStrValue, NonStrSized, <<>>, <<32>>, <<233>>, <<97>>, <<98>>}

ProcessedTexts == {preprocess_text(x, MAX_TEXT_LENGTH) : x \in Texts} \ {<<>>}

\* output_path arguments: omitted, on another filesystem, or the cache path
\* of the text "a"
OutputArgs == {NonePath, TmpPath, get_cache_path(<<97>>)}

Paths ==
    {DEFAULT_OUTPUT_PATH, TmpPath} \cup {get_cache_path(x) : x \in ProcessedTexts}

\* How one call of communicate.save() can end: it writes a file of some
\* size, raises a library error, hangs until the 30 s timeout, or returns
\* without writing.
EdgeOutcomes ==
    [kind : {"write"}, size : EdgeSizes, msg : {<<>>}]
    \cup [kind : {"raise"}, size : {0}, msg : {Msg403, MsgNoAudio}]
    \cup [kind : {"timeout", "nofile"}, size : {0}, msg : {<<>>}]

\* requests.post: HTTP 200 with a body of some size, another status, an
\* exception
ElevenOutcomes ==
    [kind : {"write"}, size : Sizes] \cup [kind : {"status", "raise"}, size : {0}]

\* gTTS: library missing, save() writes a file, save() raises
GttsOutcomes ==
    [kind : {"write"}, size : Sizes] \cup [kind : {"import", "raise"}, size : {0}]

\* pyttsx3: library missing, the engine writes a file, writes none, raises
Pyttsx3Outcomes ==
    [kind : {"write"}, size : Sizes]
    \cup [kind : {"import", "nofile", "raise"}, size : {0}]

\* -------------------------------------------------------------------- state

VARIABLES
    ELEVEN_API_KEY,  \* TRUE when the environment configures the key
    EDGE_TTS_LOCK,   \* 0 when free, else the thread holding it
    fs,              \* the files under the output, cache and tmp directories
    started,         \* generate_voice calls started so far
    pc,              \* where each thread is
    req,             \* the locals of each thread's request
    result,          \* what each thread's last generate_voice call returned
    hist,            \* per request: what was invoked, slept, produced
    lastCall,        \* summary of the call that returned last
    handler,         \* per thread: the route handler it runs and its stage
    fn               \* the last application of a pure function: argument, value

vars ==
    <<ELEVEN_API_KEY, EDGE_TTS_LOCK, fs, started, pc, req, result, hist, lastCall,
      handler, fn>>

\* How the backend call in progress has ended, kept until the caller
\* resumes: nothing yet, "returned", or the way it failed.
NoPending == [kind |-> "none", msg |-> <<>>]

NoReq ==
    [text |-> NoneValue, output_path |-> NonePath, processed_text |-> <<>>,
     attempt |-> 0, max_attempts |-> 0, success |-> FALSE,
     attempted_providers |-> <<>>, error_details |-> {},
     ret |-> "none", error_type |-> "none", async_lock |-> FALSE,
     pending |-> NoPending]

NoHist ==
    [invoked |-> <<>>, sleeps |-> <<>>, edgeLog |-> <<>>, produced |-> {},
     cacheHit |-> FALSE, cacheBefore |-> {},
     prev |-> [valid |-> FALSE, text |-> NoneValue, success |-> FALSE,
               byProvider |-> FALSE, outIsCache |-> FALSE]]

NoResult ==
    [kind |-> "none", success |-> FALSE, path |-> NonePath, error_type |-> "none",
     attempted_providers |-> <<>>, error_details |-> {}]

NoCall ==
    [valid |-> FALSE, text |-> NoneValue, success |-> FALSE,
     byProvider |-> FALSE, outIsCache |-> FALSE]

\* No request is being handled.
NoHandler == [route |-> "none", stage |-> "idle", outcome |-> "none", video |-> FALSE]

\* No function has been applied.
NoFn == [name |-> "none", arg |-> <<>>, out |-> FALSE]

Init ==
    /\ ELEVEN_API_KEY \in BOOLEAN
    /\ EDGE_TTS_LOCK = 0
    /\ fs = [p \in Paths |-> NoFile]
    /\ started = 0
    /\ pc = [t \in Threads |-> "idle"]
    /\ req = [t \in Threads |-> NoReq]
    /\ result = [t \in Threads |-> NoResult]
    /\ hist = [t \in Threads |-> NoHist]
    /\ lastCall = NoCall
    /\ handler = [t \in Threads |-> NoHandler]
    /\ fn = NoFn

\* --------------------------------------------------------- generate_voice

\* A thread calls generate_voice and reaches "with EDGE_TTS_LOCK:".
Call(t) ==
    /\ pc[t] = "idle"
    /\ started < MaxCalls
    /\ started' = started + 1
    /\ pc' = [pc EXCEPT ![t] = "acquire"]
    /\ result' = [result EXCEPT ![t] = NoResult]
    /\ UNCHANGED <<ELEVEN_API_KEY, EDGE_TTS_LOCK, fs, req, hist, lastCall,
                   handler, fn>>

\* Fault variant of LockAvailable: the lock is never waited for
LockAvailable_NoWait == TRUE

\* Lock.acquire() returns only when no thread holds the lock.
LockAvailable == EDGE_TTS_LOCK = 0

\* The cache paths at which a file exists
CacheEntries(f) == {p \in Paths : p.dir = "output/cache" /\ Exists(f, p)}

\* The lock is free and the thread takes it; text and output_path are the
\* arguments of its call.
Acquire(t) ==
    /\ pc[t] = "acquire"
    /\ LockAvailable
    /\ EDGE_TTS_LOCK' = t
    /\ \E x \in Texts, o \in OutputArgs :
         req' = [req EXCEPT ![t] = [NoReq EXCEPT !.text = x, !.output_path = o]]
    /\ pc' = [pc EXCEPT ![t] = "validate"]
    /\ hist' = [hist EXCEPT ![t] = [NoHist EXCEPT !.prev = lastCall,
                                                  !.cacheBefore = CacheEntries(fs)]]
    /\ UNCHANGED <<ELEVEN_API_KEY, fs, started, result, lastCall, handler, fn>>

\* ---------------------------------------------------- generate_voice_async

\* generate_voice_async returns (kind "ok": a path, kind "err": a TTSError)
\* or an exception leaves it (kind "raise"); f is the file system it leaves.
AsyncReturns(t, r, kind, error_type, f) ==
    /\ req' = [req EXCEPT ![t] = [r EXCEPT !.ret = kind, !.error_type = error_type]]
    /\ fs' = f
    /\ pc' = [pc EXCEPT ![t] = "ret"]

\* "Cache the result": os.replace(output_path, cache_path), then
\* os.replace(cache_path, output_path)
CacheRaises(f, output_path, cache_path) == ReplaceRaises(f, output_path, cache_path)

CacheResult(f, output_path, cache_path) ==
    os_replace(os_replace(f, output_path, cache_path), cache_path, output_path)

\* Input validation, preprocessing and the cache check, up to the point
\* where the primary provider's stage begins.
Validate(t) ==
    /\ pc[t] = "validate"
    /\ LET r0 == req[t]
           output_path == IF r0.output_path = NonePath THEN DEFAULT_OUTPUT_PATH
                          ELSE r0.output_path
           processed_text == preprocess_text(r0.text, MAX_TEXT_LENGTH)
           cache_path == get_cache_path(processed_text)
           r == [r0 EXCEPT !.output_path = output_path,
                           !.processed_text = processed_text]
       IN  IF ~Falsy(r0.text) /\ ~HasLen(r0.text)
           THEN \* "len(text) if text else 0" raises TypeError
                /\ AsyncReturns(t, r, "raise", "none", fs)
                /\ UNCHANGED hist
           ELSE IF Falsy(r0.text) \/ ~IsStr(r0.text)
           THEN /\ AsyncReturns(t, r, "err", "INPUT_VALIDATION_ERROR", fs)
                /\ UNCHANGED hist
           ELSE IF processed_text = <<>>
           THEN /\ AsyncReturns(t, r, "err", "TEXT_PREPROCESSING_ERROR", fs)
                /\ UNCHANGED hist
           ELSE IF Exists(fs, cache_path)
           THEN /\ hist' = [hist EXCEPT ![t].cacheHit = TRUE]
                /\ IF cache_path # output_path
                   THEN IF ReplaceRaises(fs, cache_path, output_path)
                        THEN AsyncReturns(t, r, "raise", "none", fs)
                        ELSE AsyncReturns(t, r, "ok", "none",
                                          os_replace(fs, cache_path, output_path))
                   ELSE AsyncReturns(t, r, "ok", "none", fs)
           ELSE /\ req' = [req EXCEPT ![t] =
                              [r EXCEPT !.attempted_providers = <<"Edge TTS">>,
                                        !.attempt = 1,
                                        !.max_attempts = EDGE_MAX_ATTEMPTS]]
                /\ pc' = [pc EXCEPT ![t] = "edge_call"]
                /\ UNCHANGED <<fs, hist>>
    /\ UNCHANGED <<ELEVEN_API_KEY, EDGE_TTS_LOCK, started, result, lastCall,
                   handler, fn>>

\* ------------------------------------------------ _edge_tts_with_smart_retry

\* What the backend's call leaves on disk: the file it wrote, if any.
BackendWrite(f, output_path, text, o) ==
    IF o.kind = "write" THEN WriteFile(f, output_path, o.size, text) ELSE f

\* _do_edge_tts after "await asyncio.wait_for(communicate.save(...))": o is
\* how save() ended and f the file system the coroutine finds when it
\* resumes.  ok, or the message of the exception raised; fs is the file
\* system afterwards (every exception path removes the output file).
_do_edge_tts(f, output_path, o) ==
    IF o.kind = "timeout"
    THEN [ok |-> FALSE, msg |-> MsgTimeout, fs |-> RemoveIfExists(f, output_path)]
    ELSE IF o.kind = "raise"
    THEN [ok |-> FALSE, msg |-> o.msg, fs |-> RemoveIfExists(f, output_path)]
    ELSE IF Exists(f, output_path)
    THEN IF f[output_path].size > MIN_AUDIO_BYTES
         THEN [ok |-> TRUE, msg |-> <<>>, fs |-> f]
         ELSE [ok |-> FALSE, msg |-> MsgInvalidSize(f[output_path].size),
               fs |-> RemoveIfExists(f, output_path)]
    ELSE [ok |-> FALSE, msg |-> MsgNotCreated, fs |-> f]

\* An attempt of the retry loop begins: "async with async_lock" takes the
\* asyncio.Lock this call created for itself (req[t].async_lock is its
\* locked() state), and the primary provider is called.
EdgeStart(t) ==
    /\ pc[t] = "edge_call"
    /\ ~req[t].async_lock
    /\ req' = [req EXCEPT ![t].async_lock = TRUE]
    /\ pc' = [pc EXCEPT ![t] = "in_edge"]
    /\ hist' = [hist EXCEPT ![t].invoked = Append(@, "Edge TTS")]
    /\ UNCHANGED <<ELEVEN_API_KEY, EDGE_TTS_LOCK, fs, started, result,
                   lastCall, handler, fn>>

\* Fault variant of AfterFailure: the error is not classified, every
\* failure is retried while attempts remain
AfterFailure_Unclassified(msg, attempt, max_attempts) ==
    IF attempt < max_attempts THEN "sleep" ELSE "exhausted"

\* Fault variant of AfterFailure: "attempt <= max_attempts", one attempt
\* too many
AfterFailure_OffByOne(msg, attempt, max_attempts) ==
    IF ~_is_retryable_error(msg) THEN "stop"
    ELSE IF attempt <= max_attempts THEN "sleep"
    ELSE "exhausted"

\* Fault variant of AfterFailure: a non-retryable error ends the loop only
\* when it is the first attempt that meets it
AfterFailure_FatalFirstOnly(msg, attempt, max_attempts) ==
    IF ~_is_retryable_error(msg) /\ attempt = 1 THEN "stop"
    ELSE IF attempt < max_attempts THEN "sleep"
    ELSE "exhausted"

\* What the loop does with a failed attempt: "stop" on a non-retryable
\* error, "sleep" when a retryable one leaves attempts, else "exhausted".
AfterFailure(msg, attempt, max_attempts) ==
    IF ~_is_retryable_error(msg) THEN "stop"
    ELSE IF attempt < max_attempts THEN "sleep"
    ELSE "exhausted"

\* While the coroutine waits in "await asyncio.wait_for(...)", save() runs:
\* it writes a file of some size, raises, hangs until the 30 s timeout or
\* returns without writing.  Other coroutines and threads run before the
\* caller resumes.
EdgeSave(t) ==
    /\ pc[t] = "in_edge"
    /\ req[t].pending.kind = "none"
    /\ \E o \in EdgeOutcomes :
         /\ fs' = BackendWrite(fs, req[t].output_path, req[t].processed_text, o)
         /\ req' = [req EXCEPT ![t].pending =
                        [kind |-> IF o.kind \in {"write", "nofile"} THEN "returned"
                                  ELSE o.kind,
                         msg |-> o.msg]]
    /\ UNCHANGED <<ELEVEN_API_KEY, EDGE_TTS_LOCK, started, pc, result, hist,
                   lastCall, handler, fn>>

\* The coroutine resumes: _do_edge_tts checks the file and returns or
\* raises, the lock is released on leaving the "async with" block, and the
\* loop decides what follows.
EdgeEnd(t) ==
    /\ pc[t] = "in_edge"
    /\ req[t].pending.kind # "none"
    /\ LET r == req[t]
           d == _do_edge_tts(fs, r.output_path, r.pending)
           next == IF d.ok THEN "return"
                   ELSE AfterFailure(d.msg, r.attempt, r.max_attempts)
       IN  /\ fs' = d.fs
           /\ req' = [req EXCEPT ![t].success = d.ok, ![t].async_lock = FALSE,
                                 ![t].pending = NoPending]
           /\ pc' = [pc EXCEPT ![t] = IF next = "sleep" THEN "backoff"
                                      ELSE "edge_stage"]
           /\ hist' = [hist EXCEPT
                  ![t].edgeLog = Append(@, IF d.ok THEN "ok"
                                           ELSE IF _is_retryable_error(d.msg)
                                           THEN "retryable"
                                           ELSE "fatal"),
                  ![t].produced = IF d.ok THEN @ \cup {"Edge TTS"} ELSE @]
    /\ UNCHANGED <<ELEVEN_API_KEY, EDGE_TTS_LOCK, started, result, lastCall,
                   handler, fn>>

\* "await asyncio.sleep(backoff_with_jitter)", then the next attempt.
Backoff(t) ==
    /\ pc[t] = "backoff"
    /\ hist' = [hist EXCEPT ![t].sleeps = Append(@, BackoffTenths(req[t].attempt))]
    /\ req' = [req EXCEPT ![t].attempt = @ + 1]
    /\ pc' = [pc EXCEPT ![t] = "edge_call"]
    /\ UNCHANGED <<ELEVEN_API_KEY, EDGE_TTS_LOCK, fs, started, result, lastCall,
                   handler, fn>>

\* ------------------------------------------------- the provider stages

\* "if os.path.exists(output_path): os.remove(output_path)", then the next
\* provider's stage begins: attempted_providers.append(name).
FallThrough(t, r, f, name, next_pc) ==
    /\ fs' = RemoveIfExists(f, r.output_path)
    /\ req' = [req EXCEPT ![t] =
                  [r EXCEPT !.attempted_providers = Append(@, name)]]
    /\ pc' = [pc EXCEPT ![t] = next_pc]

\* "success and os.path.exists(output_path) and os.path.getsize(...) > 1000"
ValidOutput(f, output_path, success) ==
    success /\ Exists(f, output_path) /\ f[output_path].size > MIN_AUDIO_BYTES

\* The rest of the primary provider's stage, after the retry loop returned.
EdgeStage(t) ==
    /\ pc[t] = "edge_stage"
    /\ LET r == req[t]
           cache_path == get_cache_path(r.processed_text)
       IN  IF ValidOutput(fs, r.output_path, r.success)
           THEN IF CacheRaises(fs, r.output_path, cache_path)
                THEN \* except Exception: error_details["edge_tts"] = ...
                     FallThrough(t, [r EXCEPT !.error_details = @ \cup {"edge_tts"}],
                                 fs, "ElevenLabs", "eleven_call")
                ELSE AsyncReturns(t, r, "ok", "none",
                                  CacheResult(fs, r.output_path, cache_path))
           ELSE FallThrough(t, r, fs, "ElevenLabs", "eleven_call")
    /\ UNCHANGED <<ELEVEN_API_KEY, EDGE_TTS_LOCK, started, result, hist,
                   lastCall, handler, fn>>

\* _elevenlabs_tts: False without a key; with one, an HTTP 200 body is
\* written to output_path and any other end is False.
_elevenlabs_tts(f, output_path, text, key, o) ==
    IF ~key THEN [ok |-> FALSE, fs |-> f]
    ELSE IF o.kind = "write"
    THEN [ok |-> TRUE, fs |-> WriteFile(f, output_path, o.size, text)]
    ELSE [ok |-> FALSE, fs |-> f]

ElevenStart(t) ==
    /\ pc[t] = "eleven_call"
    /\ pc' = [pc EXCEPT ![t] = "in_eleven"]
    /\ hist' = [hist EXCEPT ![t].invoked = Append(@, "ElevenLabs")]
    /\ UNCHANGED <<ELEVEN_API_KEY, EDGE_TTS_LOCK, fs, started, req, result,
                   lastCall, handler, fn>>

\* _elevenlabs_tts runs: requests.post and, for an HTTP 200, the body
\* written to output_path.  The file is on disk from here on; the stage
\* looks at it only in its next step.
ElevenPost(t) ==
    /\ pc[t] = "in_eleven"
    /\ req[t].pending.kind = "none"
    /\ \E o \in ElevenOutcomes :
         LET r == req[t]
             d == _elevenlabs_tts(fs, r.output_path, r.processed_text,
                                  ELEVEN_API_KEY, o)
         IN  /\ fs' = d.fs
             /\ req' = [req EXCEPT ![t].pending =
                            [kind |-> IF d.ok THEN "returned" ELSE "failed",
                             msg |-> <<>>]]
    /\ UNCHANGED <<ELEVEN_API_KEY, EDGE_TTS_LOCK, started, pc, result, hist,
                   lastCall, handler, fn>>

\* "if success and os.path.exists(output_path) and ...": the stage checks
\* what is on disk now, caches it or falls through.
ElevenEnd(t) ==
    /\ pc[t] = "in_eleven"
    /\ req[t].pending.kind # "none"
    /\ LET r == [req[t] EXCEPT !.pending = NoPending]
           cache_path == get_cache_path(r.processed_text)
           valid == ValidOutput(fs, r.output_path, req[t].pending.kind = "returned")
       IN  /\ hist' = [hist EXCEPT ![t].produced =
                          IF valid THEN @ \cup {"ElevenLabs"} ELSE @]
           /\ IF valid
              THEN IF CacheRaises(fs, r.output_path, cache_path)
                   THEN \* except Exception: error_details["elevenlabs_tts"]
                        FallThrough(t, [r EXCEPT !.error_details =
                                              @ \cup {"elevenlabs_tts"}],
                                    fs, "gTTS", "gtts_call")
                   ELSE AsyncReturns(t, r, "ok", "none",
                                     CacheResult(fs, r.output_path, cache_path))
              ELSE FallThrough(t, r, fs, "gTTS", "gtts_call")
    /\ UNCHANGED <<ELEVEN_API_KEY, EDGE_TTS_LOCK, started, result, lastCall,
                   handler, fn>>

\* _gtts_tts after "await asyncio.to_thread(_save)": o is how the import
\* and save() ended, f the file system found on resuming.  True only for
\* a file above the floor; an invalid file and an exception both remove
\* the output file.
_gtts_tts(f, output_path, o) ==
    IF o.kind = "import" THEN [ok |-> FALSE, fs |-> f]
    ELSE IF o.kind = "raise"
    THEN [ok |-> FALSE, fs |-> RemoveIfExists(f, output_path)]
    ELSE IF Exists(f, output_path) /\ f[output_path].size > MIN_AUDIO_BYTES
    THEN [ok |-> TRUE, fs |-> f]
    ELSE [ok |-> FALSE, fs |-> RemoveIfExists(f, output_path)]

GttsStart(t) ==
    /\ pc[t] = "gtts_call"
    /\ pc' = [pc EXCEPT ![t] = "in_gtts"]
    /\ hist' = [hist EXCEPT ![t].invoked = Append(@, "gTTS")]
    /\ UNCHANGED <<ELEVEN_API_KEY, EDGE_TTS_LOCK, fs, started, req, result,
                   lastCall, handler, fn>>

\* While the coroutine waits in "await asyncio.to_thread(_save)", the
\* worker thread runs gTTS: the library is missing, save() writes a file,
\* or it raises.
GttsSave(t) ==
    /\ pc[t] = "in_gtts"
    /\ req[t].pending.kind = "none"
    /\ \E o \in GttsOutcomes :
         /\ fs' = BackendWrite(fs, req[t].output_path, req[t].processed_text, o)
         /\ req' = [req EXCEPT ![t].pending =
                        [kind |-> IF o.kind = "write" THEN "returned" ELSE o.kind,
                         msg |-> <<>>]]
    /\ UNCHANGED <<ELEVEN_API_KEY, EDGE_TTS_LOCK, started, pc, result, hist,
                   lastCall, handler, fn>>

\* The coroutine resumes: _gtts_tts checks the file, then the stage does.
\* The gTTS stage is not inside a try block: an exception of os.replace
\* leaves generate_voice_async.
GttsEnd(t) ==
    /\ pc[t] = "in_gtts"
    /\ req[t].pending.kind # "none"
    /\ LET r == [req[t] EXCEPT !.pending = NoPending]
           cache_path == get_cache_path(r.processed_text)
           d == _gtts_tts(fs, r.output_path, req[t].pending)
           valid == ValidOutput(d.fs, r.output_path, d.ok)
       IN  /\ hist' = [hist EXCEPT ![t].produced =
                          IF valid THEN @ \cup {"gTTS"} ELSE @]
           /\ IF valid
              THEN IF CacheRaises(d.fs, r.output_path, cache_path)
                   THEN AsyncReturns(t, r, "raise", "none", d.fs)
                   ELSE AsyncReturns(t, r, "ok", "none",
                                     CacheResult(d.fs, r.output_path, cache_path))
              ELSE FallThrough(t, r, d.fs, "pyttsx3", "pyttsx3_call")
    /\ UNCHANGED <<ELEVEN_API_KEY, EDGE_TTS_LOCK, started, result, lastCall,
                   handler, fn>>

\* _pyttsx3_tts after "await asyncio.to_thread(_save)": True as soon as a
\* file exists at output_path, whatever its size.
_pyttsx3_tts(f, output_path, o) ==
    IF o.kind = "import" THEN [ok |-> FALSE, fs |-> f]
    ELSE IF o.kind = "raise"
    THEN [ok |-> FALSE, fs |-> RemoveIfExists(f, output_path)]
    ELSE [ok |-> Exists(f, output_path), fs |-> f]

Pyttsx3Start(t) ==
    /\ pc[t] = "pyttsx3_call"
    /\ pc' = [pc EXCEPT ![t] = "in_pyttsx3"]
    /\ hist' = [hist EXCEPT ![t].invoked = Append(@, "pyttsx3")]
    /\ UNCHANGED <<ELEVEN_API_KEY, EDGE_TTS_LOCK, fs, started, req, result,
                   lastCall, handler, fn>>

\* While the coroutine waits in "await asyncio.to_thread(_save)", the
\* worker thread runs the engine: the library is missing, it writes a
\* file, writes none, or raises.
Pyttsx3Save(t) ==
    /\ pc[t] = "in_pyttsx3"
    /\ req[t].pending.kind = "none"
    /\ \E o \in Pyttsx3Outcomes :
         /\ fs' = BackendWrite(fs, req[t].output_path, req[t].processed_text, o)
         /\ req' = [req EXCEPT ![t].pending =
                        [kind |-> IF o.kind \in {"write", "nofile"} THEN "returned"
                                  ELSE o.kind,
                         msg |-> <<>>]]
    /\ UNCHANGED <<ELEVEN_API_KEY, EDGE_TTS_LOCK, started, pc, result, hist,
                   lastCall, handler, fn>>

\* The coroutine resumes.  The last stage: its output is not cached; when
\* it fails too the request ends with the ALL_PROVIDERS_FAILED error.
Pyttsx3End(t) ==
    /\ pc[t] = "in_pyttsx3"
    /\ req[t].pending.kind # "none"
    /\ LET r == [req[t] EXCEPT !.pending = NoPending]
           d == _pyttsx3_tts(fs, r.output_path, req[t].pending)
           valid == d.ok /\ Exists(d.fs, r.output_path)
       IN  /\ hist' = [hist EXCEPT ![t].produced =
                          IF valid THEN @ \cup {"pyttsx3"} ELSE @]
           /\ IF valid
              THEN AsyncReturns(t, r, "ok", "none", d.fs)
              ELSE AsyncReturns(t, r, "err", "ALL_PROVIDERS_FAILED",
                                RemoveIfExists(d.fs, r.output_path))
    /\ UNCHANGED <<ELEVEN_API_KEY, EDGE_TTS_LOCK, started, result, lastCall,
                   handler, fn>>

\* ------------------------------------------- generate_voice: the result

\* Fault variant of ResultOf: no "except Exception" around the call, an
\* exception of generate_voice_async leaves generate_voice
ResultOf_Propagate(r) ==
    IF r.ret = "raise"
    THEN [kind |-> "raised", success |-> FALSE, path |-> NonePath,
          error_type |-> "SYSTEM_ERROR", attempted_providers |-> <<>>,
          error_details |-> {}]
    ELSE [kind |-> "dict", success |-> r.ret = "ok",
          path |-> IF r.ret = "ok" THEN r.output_path ELSE NonePath,
          error_type |-> r.error_type,
          attempted_providers |-> <<>>, error_details |-> {}]

\* The dictionary generate_voice returns for what generate_voice_async
\* returned or raised.
ResultOf(r) ==
    IF r.ret = "ok"
    THEN [kind |-> "dict", success |-> TRUE, path |-> r.output_path,
          error_type |-> "none", attempted_providers |-> <<>>,
          error_details |-> {}]
    ELSE IF r.ret = "err"
    THEN [kind |-> "dict", success |-> FALSE, path |-> NonePath,
          error_type |-> r.error_type,
          attempted_providers |-> IF r.error_type = "ALL_PROVIDERS_FAILED"
                                  THEN r.attempted_providers ELSE <<>>,
          error_details |-> IF r.error_type = "ALL_PROVIDERS_FAILED"
                            THEN r.error_details ELSE {}]
    ELSE \* except Exception as e: the SYSTEM_ERROR dictionary
         [kind |-> "dict", success |-> FALSE, path |-> NonePath,
          error_type |-> "SYSTEM_ERROR", attempted_providers |-> <<>>,
          error_details |-> {}]

BuildResult(t) ==
    /\ pc[t] = "ret"
    /\ result' = [result EXCEPT ![t] = ResultOf(req[t])]
    /\ pc' = [pc EXCEPT ![t] = "release"]
    /\ UNCHANGED <<ELEVEN_API_KEY, EDGE_TTS_LOCK, fs, started, req, hist,
                   lastCall, handler, fn>>

\* Leaving the "with EDGE_TTS_LOCK:" block releases the lock; the call has
\* returned.
Release(t) ==
    /\ pc[t] = "release"
    /\ EDGE_TTS_LOCK' = IF EDGE_TTS_LOCK = t THEN 0 ELSE EDGE_TTS_LOCK
    /\ pc' = [pc EXCEPT ![t] = "idle"]
    /\ lastCall' = [valid |-> TRUE, text |-> req[t].text,
                    success |-> result[t].success,
                    byProvider |-> result[t].success /\ ~hist[t].cacheHit,
                    outIsCache |-> req[t].output_path
                                   = get_cache_path(req[t].processed_text)]
    /\ req' = [req EXCEPT ![t] = NoReq]
    /\ hist' = [hist EXCEPT ![t] = NoHist]
    /\ UNCHANGED <<ELEVEN_API_KEY, fs, started, result, handler, fn>>

Next ==
    \E t \in Threads :
        \/ Call(t)
        \/ Acquire(t)
        \/ Validate(t)
        \/ EdgeStart(t)
        \/ EdgeSave(t)
        \/ EdgeEnd(t)
        \/ Backoff(t)
        \/ EdgeStage(t)
        \/ ElevenStart(t)
        \/ ElevenPost(t)
        \/ ElevenEnd(t)
        \/ GttsStart(t)
        \/ GttsSave(t)
        \/ GttsEnd(t)
        \/ Pyttsx3Start(t)
        \/ Pyttsx3Save(t)
        \/ Pyttsx3End(t)
        \/ BuildResult(t)
        \/ Release(t)

Spec == Init /\ [][Next]_vars

\* ------------------------------- the retry loop called on its own

\* A caller awaits _edge_tts_with_smart_retry(text, output_path,
\* max_attempts=n) directly, for any n, one call at a time.
RetryCall(t) ==
    /\ \A u \in Threads : pc[u] = "idle"
    /\ started < MaxCalls
    /\ started' = started + 1
    /\ \E x \in ProcessedTexts, o \in {DEFAULT_OUTPUT_PATH, TmpPath},
          n \in 1..MaxAttemptsBound :
         req' = [req EXCEPT ![t] =
                    [NoReq EXCEPT !.text = x, !.processed_text = x,
                                  !.output_path = o, !.attempt = 1,
                                  !.max_attempts = n]]
    /\ hist' = [hist EXCEPT ![t] = NoHist]
    /\ pc' = [pc EXCEPT ![t] = "edge_call"]
    /\ UNCHANGED <<ELEVEN_API_KEY, EDGE_TTS_LOCK, fs, result, lastCall, handler,
                   fn>>

\* The loop has returned True or False to that caller.
RetryReturn(t) ==
    /\ pc[t] = "edge_stage"
    /\ pc' = [pc EXCEPT ![t] = "idle"]
    /\ req' = [req EXCEPT ![t] = NoReq]
    /\ hist' = [hist EXCEPT ![t] = NoHist]
    /\ UNCHANGED <<ELEVEN_API_KEY, EDGE_TTS_LOCK, fs, started, result, lastCall,
                   handler, fn>>

RetryNext ==
    \E t \in Threads :
        \/ RetryCall(t)
        \/ EdgeStart(t)
        \/ EdgeSave(t)
        \/ EdgeEnd(t)
        \/ Backoff(t)
        \/ RetryReturn(t)

RetrySpec == Init /\ [][RetryNext]_vars

\* =================================================================== claims

Count(seq, x) == Cardinality({i \in 1..Len(seq) : seq[i] = x})

Range(seq) == {seq[i] : i \in 1..Len(seq)}

\* The provider stages in their priority order
Rank(name) ==
    CASE name = "Edge TTS" -> 1
      [] name = "ElevenLabs" -> 2
      [] name = "gTTS" -> 3
      [] name = "pyttsx3" -> 4

\* The providers called in a request, in the order of their first call
RECURSIVE Dedup(_)
Dedup(seq) ==
    IF seq = <<>> THEN <<>>
    ELSE LET init == Dedup(SubSeq(seq, 1, Len(seq) - 1))
         IN  IF seq[Len(seq)] \in Range(init) THEN init
             ELSE Append(init, seq[Len(seq)])

InProviderCall(t) == pc[t] \in {"in_edge", "in_eleven", "in_gtts", "in_pyttsx3"}

\* The request has left the primary provider's stage.
PastEdgeStage(t) ==
    pc[t] \in {"eleven_call", "in_eleven", "gtts_call", "in_gtts",
               "pyttsx3_call", "in_pyttsx3", "ret", "release"}

\* generate_voice has returned to thread t.
Returned(t) == pc[t] = "idle" /\ result[t].kind # "none"

\* C1: no two threads are inside a call of the primary provider (Edge TTS)
\* at the same time.
C1_EdgeMutualExclusion ==
    \A t1, t2 \in Threads :
        t1 # t2 => ~(pc[t1] = "in_edge" /\ pc[t2] = "in_edge")

\* C1 witness: one thread is inside the Edge TTS call while another has
\* called generate_voice and waits for the lock.
C1_Witness ==
    \E t1, t2 \in Threads :
        t1 # t2 /\ pc[t1] = "in_edge" /\ pc[t2] = "acquire"

\* C2 (as claimed): when the call that returned just before this one
\* succeeded through a provider for the same text, with an output path
\* other than the cache path, this call succeeds from the cache and invokes
\* no provider.
C2_SecondCallFromCache ==
    \A t \in Threads :
        (/\ pc[t] = "release"
         /\ hist[t].prev.valid /\ hist[t].prev.success
         /\ hist[t].prev.byProvider /\ ~hist[t].prev.outIsCache
         /\ hist[t].prev.text = req[t].text)
        => (result[t].success /\ hist[t].cacheHit /\ hist[t].invoked = <<>>)

\* C3 (as claimed): providers are called in the order Edge TTS, ElevenLabs,
\* gTTS, pyttsx3, each of the last three at most once, each only after all
\* earlier ones were called and none has produced valid audio.
C3_ProviderOrder ==
    \A t \in Threads :
        LET inv == hist[t].invoked IN
        /\ \A i \in 1..(Len(inv) - 1) : Rank(inv[i]) <= Rank(inv[i + 1])
        /\ \A n \in {"ElevenLabs", "gTTS", "pyttsx3"} : Count(inv, n) <= 1
        /\ \A i \in 1..Len(inv) :
             \A n \in {"Edge TTS", "ElevenLabs", "gTTS"} :
                 Rank(n) < Rank(inv[i]) => n \in Range(inv)
        /\ InProviderCall(t) => hist[t].produced = {}

\* C4: when the first Edge TTS attempt ends with a non-retryable error, Edge
\* TTS is called once, nothing is slept, and the ElevenLabs stage is entered
\* once, right after the Edge stage.
C4_NoRetryOnFatal ==
    \A t \in Threads :
        (hist[t].edgeLog # <<>> /\ hist[t].edgeLog[1] = "fatal")
        => /\ Count(hist[t].invoked, "Edge TTS") = 1
           /\ hist[t].edgeLog = <<"fatal">>
           /\ hist[t].sleeps = <<>>
           /\ pc[t] = "edge_stage" \/ PastEdgeStage(t)
           /\ PastEdgeStage(t) =>
                /\ Count(req[t].attempted_providers, "ElevenLabs") = 1
                /\ Count(hist[t].invoked, "ElevenLabs")
                     = (IF pc[t] = "eleven_call" THEN 0 ELSE 1)

\* C4 witness: the ElevenLabs call is running after a single, non-retryable
\* Edge TTS failure.
C4_Witness ==
    \E t \in Threads : pc[t] = "in_eleven" /\ hist[t].edgeLog = <<"fatal">>

\* C5: when every Edge TTS attempt fails with a retryable error, the request
\* leaves the retry loop only after exactly max_attempts = 3 calls.
C5_RetryBound ==
    \A t \in Threads :
        (/\ hist[t].edgeLog # <<>>
         /\ \A i \in 1..Len(hist[t].edgeLog) : hist[t].edgeLog[i] = "retryable")
        => /\ Len(hist[t].edgeLog) <= EDGE_MAX_ATTEMPTS
           /\ Count(hist[t].invoked, "Edge TTS") <= EDGE_MAX_ATTEMPTS
           /\ (pc[t] = "edge_stage" \/ PastEdgeStage(t)) =>
                /\ req[t].max_attempts = EDGE_MAX_ATTEMPTS
                /\ Len(hist[t].edgeLog) = EDGE_MAX_ATTEMPTS
                /\ Count(hist[t].invoked, "Edge TTS") = EDGE_MAX_ATTEMPTS

\* C5 witness: the request is in the ElevenLabs call after three retryable
\* Edge TTS failures.
C5_Witness ==
    \E t \in Threads :
        /\ pc[t] = "in_eleven"
        /\ hist[t].edgeLog = <<"retryable", "retryable", "retryable">>

\* C6 (as claimed): the delays slept in one run of the retry loop never
\* decrease and never exceed the 32-second cap.
C6_BackoffMonotoneCapped ==
    \A t \in Threads :
        LET sl == hist[t].sleeps IN
        /\ \A i \in 1..(Len(sl) - 1) : sl[i] <= sl[i + 1]
        /\ \A i \in 1..Len(sl) : sl[i] <= 10 * BACKOFF_CAP_SECONDS

\* C7: whatever the providers do, generate_voice does not raise: what it
\* returns is a dictionary with a Boolean "success" (true exactly when no
\* error kind is set), a thread holds EDGE_TTS_LOCK exactly while its call is
\* in progress, and no longer once the call has returned.
C7_NeverRaises ==
    \A t \in Threads :
        /\ pc[t] \notin {"idle", "acquire"} => EDGE_TTS_LOCK = t
        /\ pc[t] \in {"idle", "acquire"} => EDGE_TTS_LOCK # t
        /\ result[t].kind \in {"none", "dict"}
        /\ Returned(t) =>
             /\ result[t].success \in BOOLEAN
             /\ result[t].success <=> result[t].error_type = "none"

\* C7 witness: a call has returned the SYSTEM_ERROR dictionary for an
\* exception that left generate_voice_async, and the lock is free.
C7_Witness ==
    \E t \in Threads :
        /\ Returned(t) /\ result[t].error_type = "SYSTEM_ERROR"
        /\ EDGE_TTS_LOCK = 0

\* Inputs the claim C8 is about: None and "", and the texts that are blank
\* or become empty in preprocessing (" " and "é").
EmptyInputs == {NoneValue, <<>>}

BlankInputs == {<<32>>, <<233>>}

\* C8 (as claimed): every such input ends in success=false with error kind
\* INPUT_VALIDATION_ERROR and no provider call.
C8_AllInputValidationError ==
    \A t \in Threads :
        (pc[t] = "release" /\ req[t].text \in EmptyInputs \cup BlankInputs)
        => /\ ~result[t].success
           /\ result[t].error_type = "INPUT_VALIDATION_ERROR"
           /\ hist[t].invoked = <<>>

\* C8 (amended): None and "" end in INPUT_VALIDATION_ERROR, a text that is
\* blank or empty after preprocessing ends in TEXT_PREPROCESSING_ERROR; in
\* both cases success=false, no provider is called and no file is touched.
C8_InvalidInputRejected ==
    \A t \in Threads :
        (pc[t] \notin {"idle", "acquire", "validate"}
         /\ req[t].text \in EmptyInputs \cup BlankInputs)
        => /\ pc[t] \in {"ret", "release"}
           /\ req[t].ret = "err"
           /\ req[t].error_type =
                (IF req[t].text \in EmptyInputs THEN "INPUT_VALIDATION_ERROR"
                 ELSE "TEXT_PREPROCESSING_ERROR")
           /\ hist[t].invoked = <<>>
           /\ pc[t] = "release" =>
                /\ ~result[t].success
                /\ result[t].error_type = req[t].error_type
                /\ result[t].attempted_providers = <<>>

\* C8 witness: a call with the non-ASCII-only text "é" is about to return
\* the TEXT_PREPROCESSING_ERROR result.
C8_Witness ==
    \E t \in Threads :
        /\ pc[t] = "release" /\ req[t].text = <<233>>
        /\ result[t].error_type = "TEXT_PREPROCESSING_ERROR"

\* C9 (as claimed): without an API key ElevenLabs is not in the result's
\* attempted_providers.
C9_UnconfiguredSkipped ==
    \A t \in Threads :
        (pc[t] = "release" /\ ~ELEVEN_API_KEY)
        => "ElevenLabs" \notin Range(result[t].attempted_providers)

\* C10 (as claimed): a successful result lists in attempted_providers the
\* providers that were called for the request, in order.
C10_AttemptedOnSuccess ==
    \A t \in Threads :
        (pc[t] = "release" /\ result[t].success)
        => result[t].attempted_providers = Dedup(hist[t].invoked)

\* An error of provider name is recorded in the details: the only keys
\* generate_voice_async ever writes are "edge_tts" and "elevenlabs_tts".
ErrorRecorded(name, details) ==
    \/ name = "Edge TTS" /\ "edge_tts" \in details
    \/ name = "ElevenLabs" /\ "elevenlabs_tts" \in details

\* C11 (as claimed): an ALL_PROVIDERS_FAILED result has success=false, lists
\* the providers in the order they were tried, and its details record an
\* error for every provider that was invoked and failed.
C11_AllFailedDetails ==
    \A t \in Threads :
        (pc[t] = "release" /\ result[t].error_type = "ALL_PROVIDERS_FAILED")
        => /\ ~result[t].success
           /\ result[t].attempted_providers = Dedup(hist[t].invoked)
           /\ \A n \in Range(hist[t].invoked) \ hist[t].produced :
                  ErrorRecorded(n, result[t].error_details)

\* C12 (as claimed): when generate_voice returns success=true for audio that
\* a provider produced, a file exists at the returned path and its size is
\* above the 1000-byte floor.
C12_SuccessAboveFloor ==
    \A t \in Threads :
        (pc[t] = "release" /\ result[t].success /\ ~hist[t].cacheHit)
        => /\ Exists(fs, result[t].path)
           /\ fs[result[t].path].size > MIN_AUDIO_BYTES

\* C13 (as claimed): the cache check of a request with a valid text is a hit
\* exactly when a file above the 1000-byte floor exists at the cache path of
\* the processed text; otherwise the request goes on to the providers.
C13_CacheHitIffValid ==
    [][\A t \in Threads :
         LET processed_text == preprocess_text(req[t].text, MAX_TEXT_LENGTH)
             cache_path == get_cache_path(processed_text)
             valid == /\ Exists(fs, cache_path)
                      /\ fs[cache_path].size > MIN_AUDIO_BYTES
         IN  (/\ pc[t] = "validate" /\ pc'[t] # "validate"
              /\ IsStr(req[t].text) /\ processed_text # <<>>)
             => /\ hist'[t].cacheHit <=> valid
                /\ ~valid => pc'[t] = "edge_call"]_vars

\* C14 (as claimed): every cache entry that exists when a generate_voice call
\* starts its work still exists when the call returns.
C14_CacheEntriesKept ==
    \A t \in Threads :
        pc[t] = "release" => \A p \in hist[t].cacheBefore : Exists(fs, p)

\* C15 (as claimed): an exception raised outside the provider calls (the
\* os.replace of the cache steps, or len() of a non-string text) ends the
\* request with success=false and SYSTEM_ERROR; a stage never catches it and
\* goes on to the next provider.  error_details is non-empty exactly when a
\* stage's "except Exception" has caught such an exception.
C15_ExceptionSurfaced ==
    \A t \in Threads :
        /\ req[t].error_details # {} =>
             pc[t] \in {"ret", "release"} /\ req[t].ret = "raise"
        /\ (pc[t] = "release"
            /\ (req[t].error_details # {} \/ req[t].ret = "raise")) =>
             ~result[t].success /\ result[t].error_type = "SYSTEM_ERROR"

\* C16 (as claimed): a request does not hold EDGE_TTS_LOCK while it is in a
\* call of ElevenLabs, gTTS or pyttsx3.
C16_LockOnlyForEdge ==
    \A t \in Threads :
        pc[t] \in {"in_eleven", "in_gtts", "in_pyttsx3"} => EDGE_TTS_LOCK # t

\* ------------------------------ a provider whose backend never responds

\* "await asyncio.to_thread(_save)" of _gtts_tts has no timeout: when
\* gTTS.save never returns, the request stays in the call for ever.
GttsHang(t) ==
    /\ pc[t] = "in_gtts"
    /\ req[t].pending.kind = "none"
    /\ pc' = [pc EXCEPT ![t] = "hung"]
    /\ UNCHANGED <<ELEVEN_API_KEY, EDGE_TTS_LOCK, fs, started, req, result,
                   hist, lastCall, handler, fn>>

\* The same for "await asyncio.to_thread(_save)" of _pyttsx3_tts, when
\* engine.runAndWait never returns.
Pyttsx3Hang(t) ==
    /\ pc[t] = "in_pyttsx3"
    /\ req[t].pending.kind = "none"
    /\ pc' = [pc EXCEPT ![t] = "hung"]
    /\ UNCHANGED <<ELEVEN_API_KEY, EDGE_TTS_LOCK, fs, started, req, result,
                   hist, lastCall, handler, fn>>

\* A step of thread t: one of the steps of its generate_voice call, where a
\* gTTS or pyttsx3 call may also never return.  (An Edge TTS call that gets
\* no answer ends by the 30 s of asyncio.wait_for, an ElevenLabs call by
\* requests' timeout=30: they are outcomes of EdgeEnd and ElevenEnd.)
ThreadStep(t) ==
    \/ Call(t)
    \/ Acquire(t)
    \/ Validate(t)
    \/ EdgeStart(t)
    \/ EdgeSave(t)
    \/ EdgeEnd(t)
    \/ Backoff(t)
    \/ EdgeStage(t)
    \/ ElevenStart(t)
    \/ ElevenPost(t)
    \/ ElevenEnd(t)
    \/ GttsStart(t)
    \/ GttsSave(t)
    \/ GttsEnd(t)
    \/ GttsHang(t)
    \/ Pyttsx3Start(t)
    \/ Pyttsx3Save(t)
    \/ Pyttsx3End(t)
    \/ Pyttsx3Hang(t)
    \/ BuildResult(t)
    \/ Release(t)

HangNext == \E t \in Threads : ThreadStep(t)

HangSpec == Init /\ [][HangNext]_vars

\* The thread that holds EDGE_TTS_LOCK is in a call that never returns.
HolderHung == EDGE_TTS_LOCK \in Threads /\ pc[EDGE_TTS_LOCK] = "hung"

\* C17 (as claimed): a call that waits for EDGE_TTS_LOCK is never left
\* waiting for a holder that will not release it: the only step of a waiting
\* call is Acquire, which needs the lock free, so a waiter behind a hung
\* holder waits for ever.
C17_WaitIsBounded ==
    \A t \in Threads : pc[t] = "acquire" => ~HolderHung

\* C18 (as claimed): no generate_voice call is ever stuck in a provider call
\* that will not return, holding EDGE_TTS_LOCK.
C18_EveryCallReturns ==
    \A t \in Threads : ~(pc[t] = "hung" /\ EDGE_TTS_LOCK = t)

\* ------------------------------------- the route handlers of app.py

\* The routes whose handler calls generate_voice
Routes == {"/generate", "/generate-and-post", "/generate-long", "/test-long"}

\* The thread that serves the requests: what a handler does with its TTS
\* result does not depend on other requests.
RouteThreads == {1}

\* Fault variant of TtsFailed: /test-long does not look at "success"
TtsFailed_TestLongUnchecked(route, tts_result) ==
    route # "/test-long" /\ ~tts_result.success

\* "if not tts_result.get("success"):", the same test in all four handlers
TtsFailed(route, tts_result) == ~tts_result.success

\* "audio_path = tts_result.get("path")" and "if not audio_path:", a test
\* that test_long does not make
NoAudioPath(route, tts_result) ==
    route # "/test-long" /\ tts_result.path = NonePath

\* A request arrives; the handler generates the script and answers 400 when
\* there is none.
RouteBegin(t) ==
    /\ handler[t].stage = "idle"
    /\ pc[t] = "idle"
    /\ started < MaxCalls
    /\ \E route \in Routes, script_ok \in BOOLEAN :
         handler' = [handler EXCEPT ![t] =
                        IF script_ok
                        THEN [NoHandler EXCEPT !.route = route, !.stage = "voice"]
                        ELSE [NoHandler EXCEPT !.route = route,
                                               !.stage = "responded",
                                               !.outcome = "script_failed"]]
    /\ result' = [result EXCEPT ![t] = NoResult]
    /\ UNCHANGED <<ELEVEN_API_KEY, EDGE_TTS_LOCK, fs, started, pc, req, hist,
                   lastCall, fn>>

\* "tts_result = generate_voice(script)"
RouteVoice(t) ==
    /\ handler[t].stage = "voice"
    /\ result[t].kind = "none"
    /\ Call(t)

\* generate_voice has returned: the handler answers 400 for a failed TTS
\* result or a missing path, and goes on to the video otherwise.
RouteCheck(t) ==
    /\ handler[t].stage = "voice"
    /\ pc[t] = "idle"
    /\ result[t].kind # "none"
    /\ LET route == handler[t].route
           tts_result == result[t]
       IN  handler' = [handler EXCEPT ![t] =
               IF TtsFailed(route, tts_result)
               THEN [@ EXCEPT !.stage = "responded", !.outcome = "tts_failed"]
               ELSE IF NoAudioPath(route, tts_result)
               THEN [@ EXCEPT !.stage = "responded", !.outcome = "no_path"]
               ELSE [@ EXCEPT !.stage = "video"]]
    /\ UNCHANGED <<ELEVEN_API_KEY, EDGE_TTS_LOCK, fs, started, pc, req, result,
                   hist, lastCall, fn>>

\* generate_video / generate_long_video is invoked with audio_path; it
\* returns a video path, or fails.
RouteVideo(t) ==
    /\ handler[t].stage = "video"
    /\ \E video_ok \in BOOLEAN :
         handler' = [handler EXCEPT ![t] =
                        [@ EXCEPT !.stage = "responded", !.video = TRUE,
                                  !.outcome = IF video_ok THEN "ok"
                                              ELSE "video_failed"]]
    /\ UNCHANGED <<ELEVEN_API_KEY, EDGE_TTS_LOCK, fs, started, pc, req, result,
                   hist, lastCall, fn>>

\* The response is sent; the thread is free for the next request.
RouteEnd(t) ==
    /\ handler[t].stage = "responded"
    /\ handler' = [handler EXCEPT ![t] = NoHandler]
    /\ UNCHANGED <<ELEVEN_API_KEY, EDGE_TTS_LOCK, fs, started, pc, req, result,
                   hist, lastCall, fn>>

RouteNext ==
    \E t \in RouteThreads :
        \/ RouteBegin(t)
        \/ RouteVoice(t)
        \/ Acquire(t)
        \/ Validate(t)
        \/ EdgeStart(t)
        \/ EdgeSave(t)
        \/ EdgeEnd(t)
        \/ Backoff(t)
        \/ EdgeStage(t)
        \/ ElevenStart(t)
        \/ ElevenPost(t)
        \/ ElevenEnd(t)
        \/ GttsStart(t)
        \/ GttsSave(t)
        \/ GttsEnd(t)
        \/ Pyttsx3Start(t)
        \/ Pyttsx3Save(t)
        \/ Pyttsx3End(t)
        \/ BuildResult(t)
        \/ Release(t)
        \/ RouteCheck(t)
        \/ RouteVideo(t)
        \/ RouteEnd(t)

RouteSpec == Init /\ [][RouteNext]_vars

\* C19: in each of the four handlers, video rendering is about to be invoked
\* or has been invoked only in a request whose generate_voice call returned
\* success=true.
C19_NoVideoAfterFailedTts ==
    \A t \in Threads :
        (handler[t].stage = "video" \/ handler[t].video)
        => result[t].kind = "dict" /\ result[t].success

\* C19 witness: /test-long has answered a request whose TTS result was the
\* ALL_PROVIDERS_FAILED error, without invoking the video rendering.
C19_Witness ==
    \E t \in Threads :
        /\ handler[t].route = "/test-long" /\ handler[t].stage = "responded"
        /\ handler[t].outcome = "tts_failed" /\ ~handler[t].video
        /\ result[t].error_type = "ALL_PROVIDERS_FAILED"

\* ------------------------------ _is_retryable_error applied on its own

\* Messages of the errors the classification is documented for, beside
\* Msg403, MsgNoAudio and MsgTimeout; then what a client library puts
\* around such a message (a prefix, the attempt, the URL, the time).
\* "503 Service Unavailable"
Msg503 ==
    <<53, 48, 51, 32, 83, 101, 114, 118, 105, 99, 101, 32, 85, 110, 97, 118, 97,
      105, 108, 97, 98, 108, 101>>
\* "Connection timeout"
MsgConnTimeout ==
    <<67, 111, 110, 110, 101, 99, 116, 105, 111, 110, 32, 116, 105, 109, 101,
      111, 117, 116>>
\* "Connection refused"
MsgConnRefused ==
    <<67, 111, 110, 110, 101, 99, 116, 105, 111, 110, 32, 114, 101, 102, 117,
      115, 101, 100>>
\* "Connection reset by peer"
MsgConnReset ==
    <<67, 111, 110, 110, 101, 99, 116, 105, 111, 110, 32, 114, 101, 115, 101,
      116, 32, 98, 121, 32, 112, 101, 101, 114>>
\* "400 Bad Request"
Msg400 ==
    <<52, 48, 48, 32, 66, 97, 100, 32, 82, 101, 113, 117, 101, 115, 116>>
\* "404 Not Found"
Msg404 ==
    <<52, 48, 52, 32, 78, 111, 116, 32, 70, 111, 117, 110, 100>>
\* "UnicodeEncodeError"
MsgEncode ==
    <<85, 110, 105, 99, 111, 100, 101, 69, 110, 99, 111, 100, 101, 69, 114, 114,
      111, 114>>
\* "No audio was received"
MsgNoAudioText ==
    <<78, 111, 32, 97, 117, 100, 105, 111, 32, 119, 97, 115, 32, 114, 101, 99,
      101, 105, 118, 101, 100>>
\* "Error: "
PrefixError ==
    <<69, 114, 114, 111, 114, 58, 32>>
\* "Edge TTS: "
PrefixEdge ==
    <<69, 100, 103, 101, 32, 84, 84, 83, 58, 32>>
\* " (attempt 2)"
SuffixAttempt ==
    <<32, 40, 97, 116, 116, 101, 109, 112, 116, 32, 50, 41>>
\* ", url='/v1?ConnectionId=4049'"
SuffixUrl ==
    <<44, 32, 117, 114, 108, 61, 39, 47, 118, 49, 63, 67, 111, 110, 110, 101,
      99, 116, 105, 111, 110, 73, 100, 61, 52, 48, 52, 57, 39>>
\* " after 400 ms"
SuffixMs ==
    <<32, 97, 102, 116, 101, 114, 32, 52, 48, 48, 32, 109, 115>>

\* What the message of an error denotes
ErrorKinds ==
    {[denotes |-> "http403", msg |-> Msg403],
     [denotes |-> "http503", msg |-> Msg503],
     [denotes |-> "timeout", msg |-> MsgConnTimeout],
     [denotes |-> "timeout", msg |-> MsgTimeout],
     [denotes |-> "refused", msg |-> MsgConnRefused],
     [denotes |-> "reset", msg |-> MsgConnReset],
     [denotes |-> "noaudio", msg |-> MsgNoAudio],
     [denotes |-> "noaudio", msg |-> MsgNoAudioText],
     [denotes |-> "http400", msg |-> Msg400],
     [denotes |-> "http404", msg |-> Msg404],
     [denotes |-> "encoding", msg |-> MsgEncode]}

ErrorPrefixes == {<<>>, PrefixError, PrefixEdge}

ErrorSuffixes == {<<>>, SuffixAttempt, SuffixUrl, SuffixMs}

\* The errors _is_retryable_error is applied to
Errors ==
    {[denotes |-> k.denotes, msg |-> p \o k.msg \o s] :
        k \in ErrorKinds, p \in ErrorPrefixes, s \in ErrorSuffixes}

\* _is_retryable_error(error) is called for an error.
Classify ==
    /\ fn.name = "none"
    /\ \E error \in Errors :
         fn' = [name |-> "_is_retryable_error", arg |-> error,
                out |-> _is_retryable_error(error.msg)]
    /\ UNCHANGED <<ELEVEN_API_KEY, EDGE_TTS_LOCK, fs, started, pc, req, result,
                   hist, lastCall, handler>>

\* The caller has used the value.
FnReturn ==
    /\ fn.name # "none"
    /\ fn' = NoFn
    /\ UNCHANGED <<ELEVEN_API_KEY, EDGE_TTS_LOCK, fs, started, pc, req, result,
                   hist, lastCall, handler>>

ClassifyNext == Classify \/ FnReturn

ClassifySpec == Init /\ [][ClassifyNext]_vars

RetryableKinds == {"http403", "http503", "timeout", "refused", "reset"}

NonRetryableKinds == {"noaudio", "http400", "http404", "encoding"}

\* C20 (as claimed): _is_retryable_error is True for every error whose
\* message denotes HTTP 403, HTTP 503, a connection timeout or a connection
\* refused/reset, and False for every error whose message denotes
\* no-audio-received, HTTP 400, HTTP 404 or a text encoding error.
C20_Classification ==
    fn.name = "_is_retryable_error"
    => /\ fn.arg.denotes \in RetryableKinds => fn.out
       /\ fn.arg.denotes \in NonRetryableKinds => ~fn.out

\* ----------------------------------- preprocess_text applied on its own

\* Longest raw text enumerated character by character.
MaxRawLen == 4

\* 'a', ' ', '\n', '\t', '\x0b', 'é' and the no-break space
RawAlphabet == {97, 32, 10, 9, 11, 233, 160}

\* Longest text of words enumerated: one beyond the window of the largest
\* small max_length, so that a word, a space and a further word can follow
\* the last fifth of the window.
MaxWordLen == 13

\* max_length arguments small enough for texts to exceed them
SmallMaxLengths == {3, 10, 11}

\* Texts of 'a' and ' ' as long as the small max_length values and longer
WordTexts == UNION {[1..n -> {97, 32}] : n \in 10..MaxWordLen}

\* The same texts with a vertical tab for the last letter of every word
\* that a space follows: whitespace that step 3 leaves in the text
VtTexts ==
    {[i \in 1..Len(w) |-> IF i < Len(w) /\ w[i] = 97 /\ w[i + 1] = 32
                          THEN 11 ELSE w[i]] : w \in WordTexts}

\* The arguments preprocess_text is applied to
RawTexts ==
    UNION {[1..n -> RawAlphabet] : n \in 0..MaxRawLen}
    \cup WordTexts \cup VtTexts \cup {NoneValue, NonStrValue, NonStrSized}

MaxLengths == SmallMaxLengths \cup {MAX_TEXT_LENGTH}

\* preprocess_text(text, max_length) is called.
Preprocess ==
    /\ fn.name = "none"
    /\ \E text \in RawTexts, max_length \in MaxLengths :
         fn' = [name |-> "preprocess_text",
                arg |-> [text |-> text, max_length |-> max_length],
                out |-> preprocess_text(text, max_length)]
    /\ UNCHANGED <<ELEVEN_API_KEY, EDGE_TTS_LOCK, fs, started, pc, req, result,
                   hist, lastCall, handler>>

PreprocessNext == Preprocess \/ FnReturn

PreprocessSpec == Init /\ [][PreprocessNext]_vars

\* C21: preprocessing the result of preprocess_text again, with the same
\* max_length (the default among them), gives the same result.
C21_Idempotent ==
    fn.name = "preprocess_text"
    => preprocess_text(fn.out, fn.arg.max_length) = fn.out

\* C21 witness: a text was collapsed to more than max_length characters
\* and truncated at a space; the result has several words.
C21_Witness ==
    /\ fn.name = "preprocess_text"
    /\ IsStr(fn.arg.text)
    /\ Len(_collapse_whitespace(fn.arg.text)) > fn.arg.max_length
    /\ fn.out # <<>> /\ Len(fn.out) < fn.arg.max_length
    /\ \E i \in 1..Len(fn.out) : fn.out[i] = 32

\* C22: the result of preprocess_text holds only code points below 128 and
\* is at most max_length long, whatever the input.
C22_AsciiAndBounded ==
    fn.name = "preprocess_text"
    => /\ \A i \in 1..Len(fn.out) : fn.out[i] \in 0..127
       /\ Len(fn.out) <= fn.arg.max_length

\* C22 witness: a text with non-ASCII characters, longer than max_length,
\* gave a non-empty result.
C22_Witness ==
    /\ fn.name = "preprocess_text"
    /\ IsStr(fn.arg.text) /\ Len(fn.arg.text) > fn.arg.max_length
    /\ \E i \in 1..Len(fn.arg.text) : fn.arg.text[i] >= 128
    /\ fn.out # <<>>

\* ------------------------------------------------- C23: truncation boundary

\* An already-clean text: steps 1 to 4 of preprocess_text leave it as it is
IsClean(text) ==
    /\ IsStr(text) /\ text # <<>>
    /\ _collapse_whitespace(_remove_emojis_and_non_ascii(Strip(text))) = text

\* text[:max_length], the window the truncation looks at
Window(text, max_length) == SliceTo(text, max_length)

\* The last call was preprocess_text on an already-clean text
CleanCall == fn.name = "preprocess_text" /\ IsClean(fn.arg.text)

\* A clean text of exactly max_length characters is returned unchanged and
\* a longer one is cut to at most max_length characters.
LengthRule ==
    /\ Len(fn.arg.text) = fn.arg.max_length => fn.out = fn.arg.text
    /\ Len(fn.arg.text) > fn.arg.max_length => Len(fn.out) <= fn.arg.max_length

\* C23: a clean text of exactly max_length characters is returned
\* unchanged; a longer clean text is cut to at most max_length characters and,
\* when the last space of its first max_length characters is at an index at
\* or above 0.8 * max_length, the result is the text up to that space.
C23_CutAtOrAbove80 ==
    CleanCall =>
        /\ LengthRule
        /\ LET last_space == RFindSpace(Window(fn.arg.text, fn.arg.max_length))
           IN  (/\ Len(fn.arg.text) > fn.arg.max_length
                /\ 10 * last_space >= 8 * fn.arg.max_length)
               => fn.out = SubSeq(fn.arg.text, 1, last_space)

\* ------------------------------------------- C24: whitespace and word order

\* text.split(): the maximal runs of non-whitespace characters, in order
RECURSIVE Words(_)
Words(s) ==
    IF s = <<>> THEN <<>>
    ELSE IF IsSpace(Head(s)) THEN Words(Tail(s))
    ELSE LET rest == Tail(s)
             more == Words(rest)
         IN  IF rest # <<>> /\ ~IsSpace(Head(rest))
             THEN <<(<<Head(s)>> \o Head(more))>> \o Tail(more)
             ELSE <<(<<Head(s)>>)>> \o more

\* The words of the cleaned text that lie wholly within its first max_length
\* characters: all words of the window, less the last one when the window
\* ends in the middle of it.
FittingWords(text, max_length) ==
    LET clean == _collapse_whitespace(_remove_emojis_and_non_ascii(Strip(text)))
        cut   == Window(clean, max_length)
        words == Words(cut)
    IN  IF /\ Len(clean) > max_length
           /\ ~IsSpace(clean[max_length]) /\ ~IsSpace(clean[max_length + 1])
        THEN SubSeq(words, 1, Len(words) - 1)
        ELSE words

\* s starts with the sequence p
IsPrefix(p, s) == Len(p) <= Len(s) /\ SubSeq(s, 1, Len(p)) = p

\* The result has no outer whitespace, no tab, newline or carriage return
\* and no two spaces in a row.
TidyWhitespace(out) ==
    /\ Strip(out) = out
    /\ \A i \in 1..Len(out) : out[i] \notin {9, 10, 13}
    /\ \A i \in 1..(Len(out) - 1) : ~(out[i] = 32 /\ out[i + 1] = 32)

\* C24: the result of preprocess_text has no leading or trailing whitespace,
\* no tab, newline or carriage return and no two consecutive spaces, and
\* every word of the input that fits within max_length is retained in order.
C24_TidyAndWordsKept ==
    (fn.name = "preprocess_text" /\ IsStr(fn.arg.text)) =>
        /\ TidyWhitespace(fn.out)
        /\ IsPrefix(FittingWords(fn.arg.text, fn.arg.max_length), Words(fn.out))

\* The whitespace half of C24 alone
C24_TidyOnly ==
    (fn.name = "preprocess_text" /\ IsStr(fn.arg.text)) => TidyWhitespace(fn.out)

\* ---------------------------------------------------- C25: voice selection

\* "en-US-AriaNeural"
PRIMARY_VOICE == <<101, 110, 45, 85, 83, 45, 65, 114, 105, 97, 78, 101, 117, 114, 97, 108>>

FALLBACK_VOICES ==
    <<
      \* "en-US-JennyNeural"
      <<101, 110, 45, 85, 83, 45, 74, 101, 110, 110, 121, 78, 101, 117, 114, 97, 108>>,
      \* "en-US-AmberNeural"
      <<101, 110, 45, 85, 83, 45, 65, 109, 98, 101, 114, 78, 101, 117, 114, 97, 108>>,
      \* "en-US-AvaNeural"
      <<101, 110, 45, 85, 83, 45, 65, 118, 97, 78, 101, 117, 114, 97, 108>>,
      \* "en-US-SaraNeural"
      <<101, 110, 45, 85, 83, 45, 83, 97, 114, 97, 78, 101, 117, 114, 97, 108>>
    >>

VALID_VOICES ==
    {
      \* "en-US-AriaNeural"
      <<101, 110, 45, 85, 83, 45, 65, 114, 105, 97, 78, 101, 117, 114, 97, 108>>,
      \* "en-US-AmberNeural"
      <<101, 110, 45, 85, 83, 45, 65, 109, 98, 101, 114, 78, 101, 117, 114, 97, 108>>,
      \* "en-US-AshleyNeural"
      <<101, 110, 45, 85, 83, 45, 65, 115, 104, 108, 101, 121, 78, 101, 117, 114, 97, 108>>,
      \* "en-US-AvaNeural"
      <<101, 110, 45, 85, 83, 45, 65, 118, 97, 78, 101, 117, 114, 97, 108>>,
      \* "en-US-CoraNeural"
      <<101, 110, 45, 85, 83, 45, 67, 111, 114, 97, 78, 101, 117, 114, 97, 108>>,
      \* "en-US-ElizabethNeural"
      <<101, 110, 45, 85, 83, 45, 69, 108, 105, 122, 97, 98, 101, 116, 104, 78, 101, 117, 114, 97, 108>>,
      \* "en-US-JennyNeural"
      <<101, 110, 45, 85, 83, 45, 74, 101, 110, 110, 121, 78, 101, 117, 114, 97, 108>>,
      \* "en-US-MichelleNeural"
      <<101, 110, 45, 85, 83, 45, 77, 105, 99, 104, 101, 108, 108, 101, 78, 101, 117, 114, 97, 108>>,
      \* "en-US-MonicaNeural"
      <<101, 110, 45, 85, 83, 45, 77, 111, 110, 105, 99, 97, 78, 101, 117, 114, 97, 108>>,
      \* "en-US-SaraNeural"
      <<101, 110, 45, 85, 83, 45, 83, 97, 114, 97, 78, 101, 117, 114, 97, 108>>,
      \* "en-US-BrianNeural"
      <<101, 110, 45, 85, 83, 45, 66, 114, 105, 97, 110, 78, 101, 117, 114, 97, 108>>,
      \* "en-US-ChristopherNeural"
      <<101, 110, 45, 85, 83, 45, 67, 104, 114, 105, 115, 116, 111, 112, 104, 101, 114, 78, 101, 117, 114, 97, 108>>,
      \* "en-US-EricNeural"
      <<101, 110, 45, 85, 83, 45, 69, 114, 105, 99, 78, 101, 117, 114, 97, 108>>,
      \* "en-US-GuyNeural"
      <<101, 110, 45, 85, 83, 45, 71, 117, 121, 78, 101, 117, 114, 97, 108>>,
      \* "en-US-JacobNeural"
      <<101, 110, 45, 85, 83, 45, 74, 97, 99, 111, 98, 78, 101, 117, 114, 97, 108>>,
      \* "en-US-RyanNeural"
      <<101, 110, 45, 85, 83, 45, 82, 121, 97, 110, 78, 101, 117, 114, 97, 108>>,
      \* "en-US-TonyNeural"
      <<101, 110, 45, 85, 83, 45, 84, 111, 110, 121, 78, 101, 117, 114, 97, 108>>
    }

\* Fault variant of validate_voice_name: every non-empty string passes
validate_voice_name_AnyString(voice) == ~Falsy(voice) /\ IsStr(voice)

validate_voice_name(voice) ==
    IF Falsy(voice) \/ ~IsStr(voice) THEN FALSE
    ELSE voice \in VALID_VOICES

get_best_voice(requested_voice) ==
    IF ~Falsy(requested_voice) /\ validate_voice_name(requested_voice)
    THEN requested_voice
    ELSE IF validate_voice_name(PRIMARY_VOICE) THEN PRIMARY_VOICE
    ELSE IF \E i \in 1..Len(FALLBACK_VOICES) : validate_voice_name(FALLBACK_VOICES[i])
    THEN FALLBACK_VOICES[CHOOSE i \in 1..Len(FALLBACK_VOICES) :
                            /\ validate_voice_name(FALLBACK_VOICES[i])
                            /\ \A j \in 1..(i - 1) : ~validate_voice_name(FALLBACK_VOICES[j])]
    ELSE PRIMARY_VOICE

\* Names that are not in the allow-list: the two of the test suite and, for
\* every valid name, its lower-case form, the name with a space before or
\* after it and the name less its first or last character.
UnknownVoices ==
    { \* "invalid-voice"
      <<105, 110, 118, 97, 108, 105, 100, 45, 118, 111, 105, 99, 101>>,
      \* "en-US-InvalidNeural"
      <<101, 110, 45, 85, 83, 45, 73, 110, 118, 97, 108, 105, 100, 78, 101, 117, 114, 97, 108>> }
    \cup {Lower(v) : v \in VALID_VOICES}
    \cup {v \o <<32>> : v \in VALID_VOICES}
    \cup {<<32>> \o v : v \in VALID_VOICES}
    \cup {Tail(v) : v \in VALID_VOICES}
    \cup {SubSeq(v, 1, Len(v) - 1) : v \in VALID_VOICES}

\* The arguments get_best_voice is applied to
RequestedVoices ==
    VALID_VOICES \cup UnknownVoices \cup {NoneValue, <<>>, NonStrValue, NonStrSized}

\* get_best_voice(requested_voice) is called.
SelectVoice ==
    /\ fn.name = "none"
    /\ \E requested_voice \in RequestedVoices :
         fn' = [name |-> "get_best_voice",
                arg |-> requested_voice,
                out |-> get_best_voice(requested_voice)]
    /\ UNCHANGED <<ELEVEN_API_KEY, EDGE_TTS_LOCK, fs, started, pc, req, result,
                   hist, lastCall, handler>>

VoiceNext == SelectVoice \/ FnReturn
VoiceSpec == Init /\ [][VoiceNext]_vars

\* C25: get_best_voice returns the requested voice when it is in
\* VALID_VOICES and PRIMARY_VOICE for every other input (None, empty,
\* non-string or unknown name); the result is always in VALID_VOICES.
C25_BestVoice ==
    fn.name = "get_best_voice" =>
        /\ fn.arg \in VALID_VOICES => fn.out = fn.arg
        /\ fn.arg \notin VALID_VOICES => fn.out = PRIMARY_VOICE
        /\ fn.out \in VALID_VOICES

\* C25 witness: an unknown name was requested and the primary voice came
\* back.
C25_Witness ==
    /\ fn.name = "get_best_voice"
    /\ fn.arg \in UnknownVoices
    /\ fn.out = PRIMARY_VOICE /\ fn.out # fn.arg

\* --------------------------------- C26: coroutines sharing one event loop

\* A coroutine calls _edge_tts_with_smart_retry(text, output_path) with the
\* default max_attempts while others may be in their own call: the new
\* frame gets a lock of its own, "async_lock = asyncio.Lock()".
AsyncCall(t) ==
    /\ pc[t] = "idle"
    /\ started < MaxCalls
    /\ started' = started + 1
    /\ \E x \in ProcessedTexts, o \in {DEFAULT_OUTPUT_PATH, TmpPath} :
         req' = [req EXCEPT ![t] =
                    [NoReq EXCEPT !.text = x, !.processed_text = x,
                                  !.output_path = o, !.attempt = 1,
                                  !.max_attempts = EDGE_MAX_ATTEMPTS,
                                  !.async_lock = FALSE]]
    /\ hist' = [hist EXCEPT ![t] = NoHist]
    /\ pc' = [pc EXCEPT ![t] = "edge_call"]
    /\ UNCHANGED <<ELEVEN_API_KEY, EDGE_TTS_LOCK, fs, result, lastCall, handler,
                   fn>>

\* asyncio.gather over the coroutines: at each await the loop may run any
\* of them.
AsyncNext ==
    \E t \in Threads :
        \/ AsyncCall(t)
        \/ EdgeStart(t)
        \/ EdgeSave(t)
        \/ EdgeEnd(t)
        \/ Backoff(t)
        \/ RetryReturn(t)

AsyncSpec == Init /\ [][AsyncNext]_vars

\* C26: two coroutines running _edge_tts_with_smart_retry on the same event
\* loop are never both inside the Edge TTS call (_do_edge_tts) at once.
C26_OneEdgeCallPerLoop ==
    \A t, u \in Threads :
        (pc[t] = "in_edge" /\ pc[u] = "in_edge") => t = u

\* ------------------------- C27: classifying the output validation failures

\* C27: every failure of the primary provider's output validation (file
\* missing, or file of at most 1000 bytes), met when _do_edge_tts resumes
\* after a save() that returned, matches no known marker and is classified
\* retryable, whatever byte count its message reports.
C27_ValidationFailureRetryable ==
    [][\A t \in Threads :
          (/\ pc[t] = "in_edge" /\ pc'[t] # "in_edge"
           /\ req[t].pending.kind = "returned"
           /\ ~req'[t].success)
          => hist'[t].edgeLog[Len(hist'[t].edgeLog)] = "retryable"]_vars

\* ------------------------- C28: two /generate requests, one output path

\* A worker thread takes a /generate request while another may be serving
\* one; "script = generate_script(...)" gives a script or nothing.
GenerateBegin(t) ==
    /\ handler[t].stage = "idle"
    /\ pc[t] = "idle"
    /\ started < MaxCalls
    /\ \E script_ok \in BOOLEAN :
         handler' = [handler EXCEPT ![t] =
                        IF script_ok
                        THEN [NoHandler EXCEPT !.route = "/generate",
                                               !.stage = "voice"]
                        ELSE [NoHandler EXCEPT !.route = "/generate",
                                               !.stage = "responded",
                                               !.outcome = "script_failed"]]
    /\ result' = [result EXCEPT ![t] = NoResult]
    /\ UNCHANGED <<ELEVEN_API_KEY, EDGE_TTS_LOCK, fs, started, pc, req, hist,
                   lastCall, fn>>

\* The threaded server runs the handlers of the requests in parallel.
ParallelNext ==
    \E t \in Threads :
        \/ GenerateBegin(t)
        \/ RouteVoice(t)
        \/ Acquire(t)
        \/ Validate(t)
        \/ EdgeStart(t)
        \/ EdgeSave(t)
        \/ EdgeEnd(t)
        \/ Backoff(t)
        \/ EdgeStage(t)
        \/ ElevenStart(t)
        \/ ElevenPost(t)
        \/ ElevenEnd(t)
        \/ GttsStart(t)
        \/ GttsSave(t)
        \/ GttsEnd(t)
        \/ Pyttsx3Start(t)
        \/ Pyttsx3Save(t)
        \/ Pyttsx3End(t)
        \/ BuildResult(t)
        \/ Release(t)
        \/ RouteCheck(t)
        \/ RouteVideo(t)
        \/ RouteEnd(t)

ParallelSpec == Init /\ [][ParallelNext]_vars

\* generate_voice has returned success with the default output path to the
\* handler of t, which has not yet called generate_video with it.
HoldsDefaultAudio(t) ==
    /\ handler[t].stage \in {"voice", "video"}
    /\ pc[t] = "idle"
    /\ result[t].kind = "dict" /\ result[t].success
    /\ result[t].path = DEFAULT_OUTPUT_PATH

\* C28: from the return of generate_voice with the default output path
\* until the handler hands the path to the video rendering, the file at
\* that path exists and keeps the audio of that request: no step of another
\* request changes or removes it.
C28_AudioKeptUntilVideo ==
    [][\A t \in Threads :
          (HoldsDefaultAudio(t) /\ HoldsDefaultAudio(t)')
          => /\ Exists(fs', DEFAULT_OUTPUT_PATH)
             /\ fs'[DEFAULT_OUTPUT_PATH] = fs[DEFAULT_OUTPUT_PATH]]_vars

\* ------------------------------------------ C29: the retry loop as a whole

\* C29: in one run of the retry loop the primary provider is called at most
\* max_attempts times; a success or a non-retryable failure, at whichever
\* attempt, is the last call; and a backoff sleep follows only a retryable
\* failure of an attempt that is not the final one.
C29_RetryLoopDiscipline ==
    \A t \in Threads :
        LET log   == hist[t].edgeLog
            calls == Count(hist[t].invoked, "Edge TTS")
            slept == Len(hist[t].sleeps)
        IN  pc[t] # "idle" =>
            /\ calls <= req[t].max_attempts
            /\ Len(log) = (IF pc[t] = "in_edge" THEN calls - 1 ELSE calls)
            /\ \A i \in 1..Len(log) :
                 log[i] \in {"ok", "fatal"} => i = Len(log) /\ pc[t] = "edge_stage"
            /\ slept <= Len(log)
            /\ \A i \in 1..slept : log[i] = "retryable" /\ i < req[t].max_attempts
            /\ pc[t] = "backoff" =>
                 /\ log[Len(log)] = "retryable"
                 /\ Len(log) < req[t].max_attempts

\* C29 witness: the loop has ended on a non-retryable failure of its second
\* attempt, with attempts left, after the one sleep that followed the first.
C29_Witness ==
    \E t \in Threads :
        /\ pc[t] = "edge_stage"
        /\ req[t].max_attempts >= 3
        /\ hist[t].edgeLog = <<"retryable", "fatal">>
        /\ Count(hist[t].invoked, "Edge TTS") = 2
        /\ Len(hist[t].sleeps) = 1

\* --------------------------------- C30: nothing left behind after failure

\* C30: when generate_voice returns success=false with ALL_PROVIDERS_FAILED,
\* no file exists at the request's output path; and each time a provider's
\* stage has failed and the next one is about to start, the file the failed
\* provider may have written is gone.
C30_NoFileAfterFailure ==
    \A t \in Threads :
        /\ pc[t] \in {"eleven_call", "gtts_call", "pyttsx3_call"}
             => ~Exists(fs, req[t].output_path)
        /\ (pc[t] \in {"ret", "release"} /\ req[t].ret = "err"
            /\ req[t].error_type = "ALL_PROVIDERS_FAILED")
             => ~Exists(fs, req[t].output_path)
        /\ (pc[t] = "release" /\ req[t].error_type = "ALL_PROVIDERS_FAILED")
             => ~result[t].success /\ result[t].path = NonePath

\* C30 witness: the result of a request in which all four providers were
\* tried and failed has been built, with ElevenLabs configured.
C30_Witness ==
    \E t \in Threads :
        /\ pc[t] = "release"
        /\ ELEVEN_API_KEY
        /\ result[t].error_type = "ALL_PROVIDERS_FAILED"
        /\ Len(result[t].attempted_providers) = 4
        /\ Count(hist[t].invoked, "ElevenLabs") = 1
        /\ ~Exists(fs, req[t].output_path)

\* ------------------- generate_voice_async called without generate_voice

\* The thread whose coroutines call the async API themselves.  Its calls
\* are awaited one at a time: without the lock, calls running side by side
\* would interleave at every file-system call of the chain, which the steps
\* of the chain do not separate.
DirectThreads == {2}

\* A coroutine awaits generate_voice_async(text, output_path) itself: the
\* same chain as under generate_voice, without EDGE_TTS_LOCK.
DirectCall(t) ==
    /\ pc[t] = "idle"
    /\ started < MaxCalls
    /\ started' = started + 1
    /\ \E x \in Texts, o \in OutputArgs :
         req' = [req EXCEPT ![t] = [NoReq EXCEPT !.text = x, !.output_path = o]]
    /\ hist' = [hist EXCEPT ![t] = [NoHist EXCEPT !.prev = lastCall,
                                                  !.cacheBefore = CacheEntries(fs)]]
    /\ result' = [result EXCEPT ![t] = NoResult]
    /\ pc' = [pc EXCEPT ![t] = "validate"]
    /\ UNCHANGED <<ELEVEN_API_KEY, EDGE_TTS_LOCK, fs, lastCall, handler, fn>>

\* generate_voice_async hands (output_path, None) or (None, TTSError) to
\* the coroutine that awaited it, or its exception reaches that coroutine.
DirectReturn(t) ==
    /\ pc[t] = "ret"
    /\ result' = [result EXCEPT ![t] =
          [kind |-> IF req[t].ret = "raise" THEN "raised" ELSE "tuple",
           success |-> req[t].ret = "ok",
           path |-> IF req[t].ret = "ok" THEN req[t].output_path ELSE NonePath,
           error_type |-> req[t].error_type,
           attempted_providers |-> IF req[t].ret = "err"
                                   THEN req[t].attempted_providers ELSE <<>>,
           error_details |-> IF req[t].ret = "err"
                             THEN req[t].error_details ELSE {}]]
    /\ lastCall' = [valid |-> TRUE, text |-> req[t].text,
                    success |-> req[t].ret = "ok",
                    byProvider |-> req[t].ret = "ok" /\ ~hist[t].cacheHit,
                    outIsCache |-> req[t].output_path
                                   = get_cache_path(req[t].processed_text)]
    /\ pc' = [pc EXCEPT ![t] = "idle"]
    /\ req' = [req EXCEPT ![t] = NoReq]
    /\ hist' = [hist EXCEPT ![t] = NoHist]
    /\ UNCHANGED <<ELEVEN_API_KEY, EDGE_TTS_LOCK, fs, started, handler, fn>>

\* generate_voice called from a coroutine, on a thread whose event loop is
\* running: once the lock is taken, loop.run_until_complete raises
\* RuntimeError, generate_voice_async never starts, and the SYSTEM_ERROR
\* dictionary is returned with the lock released.
CallInLoop(t) ==
    /\ pc[t] = "idle"
    /\ started < MaxCalls
    /\ LockAvailable
    /\ started' = started + 1
    /\ result' = [result EXCEPT ![t] =
                     ResultOf([NoReq EXCEPT !.ret = "raise"])]
    /\ UNCHANGED <<ELEVEN_API_KEY, EDGE_TTS_LOCK, fs, pc, req, hist, lastCall,
                   handler, fn>>

\* A coroutine awaits one call after another, of generate_voice_async or
\* of generate_voice, with nothing else running beside it.
DirectNext ==
    \E t \in DirectThreads :
        \/ DirectCall(t)
        \/ CallInLoop(t)
        \/ Validate(t)
        \/ EdgeStart(t)
        \/ EdgeSave(t)
        \/ EdgeEnd(t)
        \/ Backoff(t)
        \/ EdgeStage(t)
        \/ ElevenStart(t)
        \/ ElevenPost(t)
        \/ ElevenEnd(t)
        \/ GttsStart(t)
        \/ GttsSave(t)
        \/ GttsEnd(t)
        \/ Pyttsx3Start(t)
        \/ Pyttsx3Save(t)
        \/ Pyttsx3End(t)
        \/ DirectReturn(t)

DirectSpec == Init /\ [][DirectNext]_vars

====
